---------------------------- MODULE Spec2Model ----------------------------
(***************************************************************************)
(* Infrastructure reconnaissance and attack-surface risk scoring:          *)
(* the POST /api/infrastructure handler of phishing-app, its adapters      *)
(* (resolveDNS, getWhoisInfo, getHttpHeaders, getIpWhoisInfo) and the two  *)
(* scoring passes (calculateInfrastructureRisks,                           *)
(* extractTop5AttackSurfaces).                                             *)
(*                                                                         *)
(* Conventions                                                             *)
(*  - A JavaScript string the code takes apart (regex, includes, split,    *)
(*    toLowerCase) is a Text: a sequence of one-character strings.         *)
(*    Classification results that are only compared as a whole             *)
(*    ("Cloudflare", "Custom/Self-hosted") are TLA+ strings.               *)
(*  - A JavaScript object is a function whose DOMAIN is the set of its     *)
(*    keys; an absent key (or a key assigned undefined) is not in DOMAIN.  *)
(*  - null is the empty value <<>>, which is falsy like null.              *)
(*  - weights are kept in hundredths (0.95 is 95).                         *)
(*  - time is counted in clock ticks, TicksPerDay ticks a day.             *)
(***************************************************************************)
EXTENDS Integers, Sequences, FiniteSets, TLC

VARIABLES
    pc,              \* position of the handler
    body,            \* the request body as request.json() sees it
    result,          \* the InfrastructureData being assembled
    dnsData,         \* the object resolveDNS fills
    riskScores,      \* calculateInfrastructureRisks(result)
    attackSurfaces,  \* extractTop5AttackSurfaces(result, riskScores)
    response,        \* the NextResponse returned
    calls,           \* number of times each external lookup was issued
    allFailed,       \* history: no lookup issued so far has succeeded
    failed,          \* history: the lookups that threw or timed out
    whoisQuery,      \* the socket and promise of queryWhoisServer
    now              \* Date.now(), in ticks

vars == <<pc, body, result, dnsData, riskScores, attackSurfaces, response, calls, allFailed, failed, whoisQuery, now>>

-----------------------------------------------------------------------------
(* Bounds of the model *)

\* longest chain of scheme / www. prefixes put in front of an input domain
MaxPrefixes == 2

\* most records a DNS query answers with
MaxRecords == 2

\* clock ticks in a day: the resolution of Date.now() in the model
TicksPerDay == 4

\* the largest number of data events of a WHOIS connection
MaxChunks == 2

\* lines of a WHOIS response handed to the parser
MaxLines == 3

\* clock ticks of silence after which the socket's idle timer fires
WhoisIdleTicks == 2

-----------------------------------------------------------------------------
(* Text *)

UpperChars == <<"A","B","C","D","E","F","G","H","I","J","K","L","M",
                "N","O","P","Q","R","S","T","U","V","W","X","Y","Z">>
LowerChars == <<"a","b","c","d","e","f","g","h","i","j","k","l","m",
                "n","o","p","q","r","s","t","u","v","w","x","y","z">>

IsUpperChar(c) == \E i \in 1..Len(UpperChars) : UpperChars[i] = c

LowerChar(c) ==
    IF IsUpperChar(c)
    THEN LowerChars[CHOOSE i \in 1..Len(UpperChars) : UpperChars[i] = c]
    ELSE c

\* String.prototype.toLowerCase
ToLowerCase(s) == [i \in 1..Len(s) |-> LowerChar(s[i])]

\* String.prototype.startsWith
StartsWith(s, p) == Len(p) <= Len(s) /\ SubSeq(s, 1, Len(p)) = p

\* s without its first n characters
Drop(s, n) == SubSeq(s, n + 1, Len(s))

\* String.prototype.includes
Includes(s, sub) ==
    \E i \in 0..(Len(s) - Len(sub)) : SubSeq(s, i + 1, i + Len(sub)) = sub

\* String.prototype.indexOf for one character, 1-based; 0 when absent (-1 in JS)
IndexOf(s, c) ==
    IF \E i \in 1..Len(s) : s[i] = c
    THEN CHOOSE i \in 1..Len(s) : s[i] = c /\ \A j \in 1..(i - 1) : s[j] # c
    ELSE 0

\* s.split(c)[0]
SplitFirst(s, c) ==
    IF IndexOf(s, c) = 0 THEN s ELSE SubSeq(s, 1, IndexOf(s, c) - 1)

RECURSIVE Concat(_)
\* the concatenation of a sequence of Texts (Array.prototype.join(""))
Concat(ss) == IF ss = <<>> THEN <<>> ELSE Head(ss) \o Concat(Tail(ss))

RECURSIVE Join(_, _)
\* Array.prototype.join(sep)
Join(ss, sep) ==
    IF ss = <<>> THEN <<>>
    ELSE IF Len(ss) = 1 THEN ss[1]
    ELSE Head(ss) \o sep \o Join(Tail(ss), sep)

T_http    == <<"h","t","t","p",":","/","/">>
T_https   == <<"h","t","t","p","s",":","/","/">>
T_HTTP    == <<"H","T","T","P",":","/","/">>
T_HTTPS   == <<"H","T","T","P","S",":","/","/">>
T_www     == <<"w","w","w",".">>
T_WWW     == <<"W","W","W",".">>
T_example == <<"e","x","a","m","p","l","e",".","c","o","m">>
T_Example == <<"E","x","a","m","p","l","e",".","c","o","m">>
T_path    == <<"/","p","a","t","h">>
T_slash   == <<"/">>

-----------------------------------------------------------------------------
(* JavaScript objects *)

EmptyObject == <<>>

Has(o, k) == k \in DOMAIN o

\* the object o with key k set to v
Set(o, k, v) == (k :> v) @@ o

\* a Text or list-valued field that is present and non-empty
TruthyText(o, k) == Has(o, k) /\ o[k] # <<>>

\* a string-valued (classification) field that is present and non-empty
TruthyStr(o, k) == Has(o, k) /\ o[k] # ""

\* a boolean field that is present and true
TruthyBool(o, k) == Has(o, k) /\ o[k] = TRUE

-----------------------------------------------------------------------------
(* POST: validation and normalization *)

\* domain.replace(/^https?:\/\//, ""): the pattern is case-sensitive
StripScheme(s) ==
    IF StartsWith(s, T_https) THEN Drop(s, Len(T_https))
    ELSE IF StartsWith(s, T_http) THEN Drop(s, Len(T_http))
    ELSE s

\* .replace(/^www\./, ""): one leading lowercase "www."
StripWww(s) == IF StartsWith(s, T_www) THEN Drop(s, Len(T_www)) ELSE s

\* the chain replace, replace, split("/")[0], toLowerCase
NormalizeDomain(domain) ==
    ToLowerCase(SplitFirst(StripWww(StripScheme(domain)), "/"))

DataSources == <<"Node.js DNS Module", "WHOIS Protocol", "HTTP Headers", "ipwhois.app API">>

\* the InfrastructureData the handler starts from
NewResult(cleanDomain, t) ==
    [ domain    |-> cleanDomain,
      timestamp |-> t,
      metadata  |-> [ data_sources      |-> DataSources,
                      collection_method |-> "Passive Reconnaissance (Native & Public APIs)",
                      notes             |-> <<"Using Node.js DNS resolver for queries",
                                              "WHOIS data from real WHOIS servers",
                                              "No command-line tools required",
                                              "Windows compatible">>,
                      warnings          |-> <<>> ] ]

\* request bodies: an unparsable body, JSON null, or a JSON value with an
\* optional domain member of some type
UnparsableBody == [kind |-> "unparsable", dtype |-> "undefined", text |-> <<>>]
NullBody       == [kind |-> "null",       dtype |-> "undefined", text |-> <<>>]
ObjectBody(dtype, text) == [kind |-> "object", dtype |-> dtype, text |-> text]

\* !domain || typeof domain !== "string"
DomainRejected(b) == b.dtype # "string" \/ b.text = <<>>

NoCalls == [l \in {"ns", "a", "aaaa", "mx", "txt", "soa", "dmarc", "http", "whois", "ip"} |-> 0]

Respond400 == [status |-> 400, error |-> "Domain is required"]
Respond500(message) == [status |-> 500, error |-> message]
Respond200 == [status |-> 200, error |-> ""]
NoResponse == [status |-> 0, error |-> ""]

\* POST up to the first await of a lookup
Receive ==
    /\ pc = "start"
    /\ IF body.kind = "unparsable"
       THEN \* request.json() rejects: the top-level catch answers
            /\ response' = Respond500("Unexpected token in JSON")
            /\ pc' = "done"
            /\ UNCHANGED result
       ELSE IF body.kind = "null"
       THEN \* const { domain } = null throws a TypeError
            /\ response' = Respond500("Cannot destructure property 'domain' of 'body' as it is null.")
            /\ pc' = "done"
            /\ UNCHANGED result
       ELSE IF DomainRejected(body)
       THEN /\ response' = Respond400
            /\ pc' = "done"
            /\ UNCHANGED result
       ELSE /\ result' = NewResult(NormalizeDomain(body.text), now)
            /\ pc' = "dns_ns"
            /\ UNCHANGED response
    /\ UNCHANGED <<body, dnsData, riskScores, attackSurfaces, calls, allFailed, failed, whoisQuery, now>>

-----------------------------------------------------------------------------
(* resolveDNS: seven queries, each in its own try/catch *)

T_nsCloudflare  == <<"n","s","1",".","c","l","o","u","d","f","l","a","r","e",".","c","o","m">>
T_nsIsp         == <<"N","S","1",".","e","x","a","m","p","l","e","-","i","s","p",".","n","e","t">>
T_ipv4          == <<"9","3",".","1","8","4",".","2","1","6",".","3","4">>
T_ipv6          == <<"2","6","0","6",":","2","8","0","0",":",":","1">>
T_mxCustom      == <<"m","a","i","l",".","e","x","a","m","p","l","e",".","c","o","m">>
T_mxGoogle      == <<"A","S","P","M","X",".","L",".","G","O","O","G","L","E",".","C","O","M">>
T_txtSpf        == <<"v","=","s","p","f","1"," ","-","a","l","l">>
T_txtOther      == <<"s","i","t","e","-","v","e","r","i","f","i","c","a","t","i","o","n","=","1">>
T_txtDmarc      == <<"v","=","D","M","A","R","C","1",";"," ","p","=","n","o","n","e">>
T_markSpf       == <<"v","=","s","p","f","1">>
T_markDmarc     == <<"v","=","D","M","A","R","C","1">>
K_cloudflare    == <<"c","l","o","u","d","f","l","a","r","e">>
K_route53       == <<"r","o","u","t","e","5","3">>
K_awsdns        == <<"a","w","s","d","n","s">>
K_akamai        == <<"a","k","a","m","a","i">>
K_google        == <<"g","o","o","g","l","e">>
K_dns           == <<"d","n","s">>
K_azure         == <<"a","z","u","r","e">>
K_gmail         == <<"g","m","a","i","l">>
K_microsoft     == <<"m","i","c","r","o","s","o","f","t">>
K_outlook       == <<"o","u","t","l","o","o","k">>
K_zoho          == <<"z","o","h","o">>
K_protonmail    == <<"p","r","o","t","o","n","m","a","i","l">>
K_mailgun       == <<"m","a","i","l","g","u","n">>
K_sendgrid      == <<"s","e","n","d","g","r","i","d">>
K_fastmail      == <<"f","a","s","t","m","a","i","l">>
K_aws           == <<"a","w","s">>
K_ses           == <<"s","e","s">>
K_office365     == <<"o","f","f","i","c","e","3","6","5">>

\* the list holding k copies of x
Repeat(x, k) == [i \in 1..k |-> x]

\* what a query can do: throw, or answer with one of `answers`
Outcomes(answers) ==
    {[fails |-> TRUE, answer |-> <<>>]} \cup {[fails |-> FALSE, answer |-> a] : a \in answers}

\* a query without records rejects (ENODATA), so an answer is non-empty; the
\* empty answer is kept for the A query, whose length the handler tests
NsAnswers   == {Repeat(T_nsCloudflare, k) : k \in 1..MaxRecords} \cup {<<T_nsIsp>>}
AAnswers    == {Repeat(T_ipv4, k) : k \in 0..MaxRecords}
AaaaAnswers == {<<T_ipv6>>}
MxAnswers   == {Repeat([priority |-> 10, exchange |-> T_mxCustom], k) : k \in 1..MaxRecords}
                   \cup {<<[priority |-> 5, exchange |-> T_mxGoogle]>>}
\* resolveTxt answers with one list of chunks per record
TxtAnswers  == {<< <<T_txtOther>> >>, << <<T_txtOther>>, <<T_txtSpf>> >>}
SoaAnswers  == {[nsname |-> T_nsIsp, serial |-> 1]}
DmarcAnswers == {<<>>, << <<T_txtOther>> >>, << <<T_txtDmarc>> >>}

\* one query of a resolveDNS with a single try around the seven queries: a
\* failure ends the resolution
DnsStepAborting(at, lookup, key, answers, onFail, next) ==
    /\ pc = at
    /\ \E o \in Outcomes(answers) :
          /\ dnsData' = Set(dnsData, key, IF o.fails THEN onFail ELSE o.answer)
          /\ allFailed' = (allFailed /\ o.fails)
          /\ failed' = IF o.fails THEN failed \cup {lookup} ELSE failed
          /\ pc' = IF o.fails THEN "http" ELSE next
    /\ calls' = [calls EXCEPT ![lookup] = @ + 1]
    /\ UNCHANGED <<body, result, riskScores, attackSurfaces, response, whoisQuery, now>>

\* one query of resolveDNS: the answer on success, `onFail` from the catch
DnsStep(at, lookup, key, answers, onFail, next) ==
    /\ pc = at
    /\ \E o \in Outcomes(answers) :
          /\ dnsData' = Set(dnsData, key, IF o.fails THEN onFail ELSE o.answer)
          /\ allFailed' = (allFailed /\ o.fails)
          /\ failed' = IF o.fails THEN failed \cup {lookup} ELSE failed
    /\ calls' = [calls EXCEPT ![lookup] = @ + 1]
    /\ pc' = next
    /\ UNCHANGED <<body, result, riskScores, attackSurfaces, response, whoisQuery, now>>

ResolveNs   == DnsStep("dns_ns",   "ns",   "nameservers",  NsAnswers,   <<>>, "dns_a")
ResolveA    == DnsStep("dns_a",    "a",    "a_records",    AAnswers,    <<>>, "dns_aaaa")
ResolveAaaa == DnsStep("dns_aaaa", "aaaa", "aaaa_records", AaaaAnswers, <<>>, "dns_mx")
ResolveMx   == DnsStep("dns_mx",   "mx",   "mx_records",   MxAnswers,   <<>>, "dns_txt")
ResolveTxt  == DnsStep("dns_txt",  "txt",  "txt_records",  TxtAnswers,  <<>>, "dns_soa")
\* a failed SOA query leaves null
ResolveSoa  == DnsStep("dns_soa",  "soa",  "soa_record",   SoaAnswers,  <<>>, "dns_dmarc")

\* detectNsProvider
detectNsProvider(nameservers) ==
    IF nameservers = <<>> THEN "Unknown"
    ELSE LET ns == ToLowerCase(nameservers[1]) IN
         IF Includes(ns, K_cloudflare) THEN "Cloudflare"
         ELSE IF Includes(ns, K_route53) \/ Includes(ns, K_awsdns) THEN "AWS Route 53"
         ELSE IF Includes(ns, K_akamai) THEN "Akamai"
         ELSE IF Includes(ns, K_google) /\ Includes(ns, K_dns) THEN "Google Cloud DNS"
         ELSE IF Includes(ns, K_azure) THEN "Azure DNS"
         ELSE "ISP/Registrar Default"

\* detectEmailProvider
detectEmailProvider(exchange) ==
    LET lower == ToLowerCase(exchange) IN
    IF Includes(lower, K_google) \/ Includes(lower, K_gmail) THEN "Google Workspace"
    ELSE IF Includes(lower, K_microsoft) \/ Includes(lower, K_outlook) THEN "Microsoft 365"
    ELSE IF Includes(lower, K_zoho) THEN "Zoho Mail"
    ELSE IF Includes(lower, K_protonmail) THEN "Proton Mail"
    ELSE IF Includes(lower, K_mailgun) THEN "Mailgun"
    ELSE IF Includes(lower, K_sendgrid) THEN "SendGrid"
    ELSE IF Includes(lower, K_fastmail) THEN "Fastmail"
    ELSE IF Includes(lower, K_aws) \/ Includes(lower, K_ses) THEN "Amazon SES"
    ELSE IF Includes(lower, K_office365) THEN "Microsoft 365"
    ELSE "Custom/Self-hosted"

\* JSON.stringify of the SOA answer: an opaque string form of it
JsonStringify(v) == [json |-> v]

\* the dns section POST builds, present only with at least one A record
DnsSection(d) ==
    LET base == [ nameservers  |-> d.nameservers,
                  a_records    |-> d.a_records,
                  aaaa_records |-> d.aaaa_records,
                  mx_records   |-> d.mx_records,
                  txt_records  |-> Concat(d.txt_records),
                  ns_provider  |-> detectNsProvider(d.nameservers) ]
    IN  IF DOMAIN d.soa_record # {}
        THEN Set(base, "soa_record", JsonStringify(d.soa_record))
        ELSE base

\* result.dns assigned whenever any DNS query answered with a record
WithDnsOfAnyRecord(r, d) ==
    IF Len(d.a_records) > 0 \/ Len(d.nameservers) > 0 \/ Len(d.mx_records) > 0
    THEN Set(r, "dns", DnsSection(d)) ELSE r

WithDns(r, d) == IF Len(d.a_records) > 0 THEN Set(r, "dns", DnsSection(d)) ELSE r

\* what the _dmarc query leaves in results.dmarc_txt
DmarcResult(d, o) ==
    IF o.fails THEN Set(d, "dmarc_txt", <<>>)
    ELSE IF o.answer # <<>> /\ Includes(Concat(Concat(o.answer)), T_markDmarc)
    THEN Set(d, "dmarc_txt", Concat(Concat(o.answer)))
    ELSE d

\* the last query of resolveDNS, its return, and POST up to the HTTP probe
ResolveDmarc ==
    /\ pc = "dns_dmarc"
    /\ \E o \in Outcomes(DmarcAnswers) :
          /\ dnsData' = DmarcResult(dnsData, o)
          /\ result' = WithDns(result, dnsData')
          /\ allFailed' = (allFailed /\ o.fails)
          /\ failed' = IF o.fails THEN failed \cup {"dmarc"} ELSE failed
    /\ calls' = [calls EXCEPT !["dmarc"] = @ + 1]
    /\ pc' = "http"
    /\ UNCHANGED <<body, riskScores, attackSurfaces, response, whoisQuery, now>>

-----------------------------------------------------------------------------
(* Dates *)

Digits == <<"0","1","2","3","4","5","6","7","8","9">>

IsDigit(c) == \E i \in 1..10 : Digits[i] = c

DigitValue(c) == (CHOOSE i \in 1..10 : Digits[i] = c) - 1

RECURSIVE ParseNat(_, _)
\* the number written by the digits s, after the digits already read as acc
ParseNat(s, acc) ==
    IF s = <<>> THEN acc ELSE ParseNat(Tail(s), 10 * acc + DigitValue(Head(s)))

AllDigits(s) == s # <<>> /\ \A i \in 1..Len(s) : IsDigit(s[i])

\* new Date(text).getTime(): NaN (valid = FALSE) for a text that is no date
DateGetTime(text) ==
    IF AllDigits(text) THEN [valid |-> TRUE, time |-> ParseNat(text, 0)]
    ELSE IF text # <<>> /\ Head(text) = "-" /\ AllDigits(Tail(text))
    THEN [valid |-> TRUE, time |-> 0 - ParseNat(Tail(text), 0)]
    ELSE [valid |-> FALSE, time |-> 0]

RECURSIVE NatText(_)
NatText(n) == IF n < 10 THEN <<Digits[n + 1]>> ELSE NatText(n \div 10) \o <<Digits[(n % 10) + 1]>>

\* the text of the date at tick t
DateText(t) == IF t < 0 THEN <<"-">> \o NatText(0 - t) ELSE NatText(t)

\* the difference taken in clock ticks, without the division by the length
\* of a day
ExpiresWithinTicks(text, t, days) ==
    LET d == DateGetTime(text) IN
    d.valid /\ (d.time - t) < days

\* Math.floor((expiryDate.getTime() - Date.now()) / (1000 * 60 * 60 * 24));
\* a comparison with NaN is false, so an Invalid Date is below no threshold
ExpiresWithin(text, t, days) ==
    LET d == DateGetTime(text) IN
    d.valid /\ ((d.time - t) \div TicksPerDay) < days

daysUntilExpiry(text, t) == (DateGetTime(text).time - t) \div TicksPerDay

\* (Date.now() - createdDate.getTime()) / (1000 * 60 * 60 * 24 * 365) < 1
YoungerThanAYear(text, t) ==
    LET d == DateGetTime(text) IN
    d.valid /\ (t - d.time) < TicksPerDay * 365

-----------------------------------------------------------------------------
(* getHttpHeaders *)

K_nginx  == <<"n","g","i","n","x">>
K_apache == <<"a","p","a","c","h","e">>
K_iis    == <<"i","i","s">>
T_serverNginx      == <<"n","g","i","n","x","/","1",".","2","5">>
T_serverCloudflare == <<"c","l","o","u","d","f","l","a","r","e">>
T_poweredPhp       == <<"P","H","P","/","8">>
T_cfRay            == <<"8","a","1","-","S","Y","D">>

\* a response of the HEAD request: the three headers read, "" when not sent
HttpResponse(server, poweredBy, cfRay) ==
    [server |-> server, powered_by |-> poweredBy, cf_ray |-> cfRay]

HttpAnswers ==
    { HttpResponse(T_serverNginx, <<>>, <<>>),
      HttpResponse(T_serverCloudflare, <<>>, T_cfRay),
      HttpResponse(<<>>, T_poweredPhp, T_cfRay),
      HttpResponse(<<>>, <<>>, <<>>) }

\* the headers object getHttpHeaders returns; {} from its catch
getHttpHeaders(o) ==
    IF o.fails THEN EmptyObject
    ELSE LET server == o.answer.server
             lower  == ToLowerCase(server)
             h0 == [server_header |-> server, powered_by |-> o.answer.powered_by, status |-> 200]
             h1 == IF Includes(lower, K_cloudflare) \/ o.answer.cf_ray # <<>>
                   THEN Set(h0, "cdn_provider", "Cloudflare")
                   ELSE IF Includes(lower, K_akamai)
                   THEN Set(h0, "cdn_provider", "Akamai")
                   ELSE h0
         IN  IF Includes(lower, K_nginx) THEN Set(h1, "platform", "Nginx")
             ELSE IF Includes(lower, K_apache) THEN Set(h1, "platform", "Apache")
             ELSE IF Includes(lower, K_iis) THEN Set(h1, "platform", "Microsoft IIS")
             ELSE h1

\* what getHttpHeaders can return
HttpResults == {[fails |-> o.fails, value |-> getHttpHeaders(o)] : o \in Outcomes(HttpAnswers)}

\* the keys `ks` of o that o has
Pick(o, ks) == [k \in (DOMAIN o) \cap ks |-> o[k]]

\* result.web_server, set when a server or x-powered-by header was seen
WithWebServer(r, h) ==
    IF TruthyText(h, "server_header") \/ TruthyText(h, "powered_by")
    THEN Set(r, "web_server", Pick(h, {"server_header", "platform", "cdn_provider"}))
    ELSE r

\* the probe made again after a failure
HttpProbeRetrying ==
    /\ pc = "http"
    /\ \E r \in HttpResults :
          /\ result' = WithWebServer(result, r.value)
          /\ allFailed' = (allFailed /\ r.fails)
          /\ failed' = IF r.fails THEN failed \cup {"http"} ELSE failed
          /\ pc' = IF r.fails THEN "http" ELSE "whois"
    /\ calls' = [calls EXCEPT !["http"] = @ + 1]
    /\ UNCHANGED <<body, dnsData, riskScores, attackSurfaces, response, whoisQuery, now>>

\* await getHttpHeaders(cleanDomain) and POST up to the WHOIS query
HttpProbe ==
    /\ pc = "http"
    /\ \E r \in HttpResults :
          /\ result' = WithWebServer(result, r.value)
          /\ allFailed' = (allFailed /\ r.fails)
          /\ failed' = IF r.fails THEN failed \cup {"http"} ELSE failed
    /\ calls' = [calls EXCEPT !["http"] = @ + 1]
    /\ pc' = "whois"
    /\ UNCHANGED <<body, dnsData, riskScores, attackSurfaces, response, whoisQuery, now>>

-----------------------------------------------------------------------------
(* parseWhoisResponse *)

K_domainName                 == <<"d","o","m","a","i","n"," ","n","a","m","e">>
K_registryDomainId           == <<"r","e","g","i","s","t","r","y"," ","d","o","m","a","i","n"," ","i","d">>
K_registrarWhoisServer       == <<"r","e","g","i","s","t","r","a","r"," ","w","h","o","i","s"," ","s","e","r","v","e","r">>
K_registrarUrl               == <<"r","e","g","i","s","t","r","a","r"," ","u","r","l">>
K_registrar                  == <<"r","e","g","i","s","t","r","a","r">>
K_name                       == <<"n","a","m","e">>
K_registrarAbuseContactEmail == <<"r","e","g","i","s","t","r","a","r"," ","a","b","u","s","e"," ","c","o","n","t","a","c","t"," ","e","m","a","i","l">>
K_registrarAbuseContactPhone == <<"r","e","g","i","s","t","r","a","r"," ","a","b","u","s","e"," ","c","o","n","t","a","c","t"," ","p","h","o","n","e">>
K_reseller                   == <<"r","e","s","e","l","l","e","r">>
K_creationDate               == <<"c","r","e","a","t","i","o","n"," ","d","a","t","e">>
K_created                    == <<"c","r","e","a","t","e","d">>
K_expir                      == <<"e","x","p","i","r">>
K_date                       == <<"d","a","t","e">>
K_updated                    == <<"u","p","d","a","t","e","d">>
K_lastModified               == <<"l","a","s","t"," ","m","o","d","i","f","i","e","d">>
K_registrant                 == <<"r","e","g","i","s","t","r","a","n","t">>
K_id                         == <<"i","d">>
K_organization               == <<"o","r","g","a","n","i","z","a","t","i","o","n">>
K_country                    == <<"c","o","u","n","t","r","y">>
K_email                      == <<"e","m","a","i","l">>
K_phone                      == <<"p","h","o","n","e">>
K_admin                      == <<"a","d","m","i","n">>
K_tech                       == <<"t","e","c","h">>
K_billing                    == <<"b","i","l","l","i","n","g">>
K_nameServer                 == <<"n","a","m","e"," ","s","e","r","v","e","r">>
K_nameserver                 == <<"n","a","m","e","s","e","r","v","e","r">>
K_status                     == <<"s","t","a","t","u","s">>
K_statusReason               == <<"s","t","a","t","u","s"," ","r","e","a","s","o","n">>
K_dnssec                     == <<"d","n","s","s","e","c">>
K_eligibilityType            == <<"e","l","i","g","i","b","i","l","i","t","y"," ","t","y","p","e">>
K_lock                       == <<"l","o","c","k">>
K_unsigned                   == <<"u","n","s","i","g","n","e","d">>

IsSpace(c) == c \in {" ", "\t", "\r", "\n"}

RECURSIVE TrimStart(_)
TrimStart(s) == IF s # <<>> /\ IsSpace(Head(s)) THEN TrimStart(Tail(s)) ELSE s

RECURSIVE TrimEnd(_)
TrimEnd(s) ==
    IF s # <<>> /\ IsSpace(s[Len(s)]) THEN TrimEnd(SubSeq(s, 1, Len(s) - 1)) ELSE s

\* String.prototype.trim
Trim(s) == TrimEnd(TrimStart(s))

RECURSIVE Split(_, _)
\* String.prototype.split on one character
Split(s, c) ==
    IF IndexOf(s, c) = 0 THEN <<s>>
    ELSE <<SubSeq(s, 1, IndexOf(s, c) - 1)>> \o Split(Drop(s, IndexOf(s, c)), c)

\* the fields a matching key assigns the value to
ScalarFields ==
    {"domain_name", "registry_domain_id", "registrar_whois_server",
     "registrar_url", "registrar", "registrar_abuse_email",
     "registrar_abuse_phone", "reseller_name", "creation_date",
     "expiration_date", "updated_date", "last_modified", "registrant_name",
     "registrant_id", "registrant_organization", "registrant_country",
     "registrant_email", "registrant_phone", "admin_name", "admin_id",
     "admin_email", "tech_name", "tech_id", "tech_email", "billing_name",
     "billing_id", "status_reason", "dnssec", "eligibility_type"}

\* the condition of the `if` that assigns field f
FieldMatches(f, key) ==
    CASE f = "domain_name" -> Includes(key, K_domainName)
      [] f = "registry_domain_id" -> Includes(key, K_registryDomainId)
      [] f = "registrar_whois_server" -> Includes(key, K_registrarWhoisServer)
      [] f = "registrar_url" -> Includes(key, K_registrarUrl) \/ key = K_registrarUrl
      [] f = "registrar" -> key = K_registrar \/ (Includes(key, K_registrar) /\ Includes(key, K_name))
      [] f = "registrar_abuse_email" -> Includes(key, K_registrarAbuseContactEmail)
      [] f = "registrar_abuse_phone" -> Includes(key, K_registrarAbuseContactPhone)
      [] f = "reseller_name" -> Includes(key, K_reseller)
      [] f = "creation_date" -> Includes(key, K_creationDate) \/ Includes(key, K_created)
      [] f = "expiration_date" -> Includes(key, K_expir) /\ (Includes(key, K_date) \/ Includes(key, K_expir))
      [] f = "updated_date" -> Includes(key, K_updated) /\ Includes(key, K_date)
      [] f = "last_modified" -> Includes(key, K_lastModified)
      [] f = "registrant_name" -> Includes(key, K_registrant) /\ Includes(key, K_name)
      [] f = "registrant_id" -> Includes(key, K_registrant) /\ Includes(key, K_id)
      [] f = "registrant_organization" -> Includes(key, K_registrant) /\ Includes(key, K_organization)
      [] f = "registrant_country" -> Includes(key, K_registrant) /\ Includes(key, K_country)
      [] f = "registrant_email" -> Includes(key, K_registrant) /\ Includes(key, K_email)
      [] f = "registrant_phone" -> Includes(key, K_registrant) /\ Includes(key, K_phone)
      [] f = "admin_name" -> Includes(key, K_admin) /\ Includes(key, K_name)
      [] f = "admin_id" -> Includes(key, K_admin) /\ Includes(key, K_id)
      [] f = "admin_email" -> Includes(key, K_admin) /\ Includes(key, K_email)
      [] f = "tech_name" -> Includes(key, K_tech) /\ Includes(key, K_name)
      [] f = "tech_id" -> Includes(key, K_tech) /\ Includes(key, K_id)
      [] f = "tech_email" -> Includes(key, K_tech) /\ Includes(key, K_email)
      [] f = "billing_name" -> Includes(key, K_billing) /\ Includes(key, K_name)
      [] f = "billing_id" -> Includes(key, K_billing) /\ Includes(key, K_id)
      [] f = "status_reason" -> Includes(key, K_statusReason)
      [] f = "dnssec" -> Includes(key, K_dnssec)
      [] f = "eligibility_type" -> Includes(key, K_eligibilityType)

\* the same with unshift in place of push
AppendToFront(r, k, value) == Set(r, k, <<value>> \o (IF Has(r, k) THEN r[k] ELSE <<>>))

\* the two lists the parser appends to
AppendTo(r, k, value) == Set(r, k, (IF Has(r, k) THEN r[k] ELSE <<>>) \o <<value>>)

\* every `if` of the loop body, for one key and value
AssignFields(r, key, value) ==
    LET matched == {f \in ScalarFields : FieldMatches(f, key)}
        r1 == [f \in (DOMAIN r) \cup matched |-> IF f \in matched THEN value ELSE r[f]]
        r2 == IF Includes(key, K_nameServer) \/ Includes(key, K_nameserver)
              THEN AppendTo(r1, "nameservers", value) ELSE r1
    IN  IF Includes(key, K_status) THEN AppendTo(r2, "status", value) ELSE r2

\* the loop body for one line
ParseLine(r, line) ==
    LET trimmed == Trim(line)
        colonIndex == IndexOf(trimmed, ":")
        key   == ToLowerCase(Trim(SubSeq(trimmed, 1, colonIndex - 1)))
        value == Trim(Drop(trimmed, colonIndex))
    IN  IF trimmed = <<>> \/ StartsWith(trimmed, <<"%">>) \/ StartsWith(trimmed, <<">">>) THEN r
        ELSE IF colonIndex = 0 THEN r
        ELSE IF value = <<>> THEN r
        ELSE AssignFields(r, key, value)

RECURSIVE ParseLines(_, _)
ParseLines(r, lines) ==
    IF lines = <<>> THEN r ELSE ParseLines(ParseLine(r, Head(lines)), Tail(lines))

parseWhoisResponse(whoisText) ==
    IF whoisText = <<>> THEN EmptyObject
    ELSE ParseLines(EmptyObject, Split(whoisText, "\n"))

-----------------------------------------------------------------------------
(* getWhoisInfo *)

\* Lines of WHOIS responses.  A date is written as a signed count of clock
\* ticks from the epoch of the model; any other text is an Invalid Date.
L_comment          == <<"%"," ","W","H","O","I","S"," ","s","e","r","v","e","r"," ","o","f"," ","t","h","e"," ","r","e","g","i","s","t","r","y">>
L_footer           == <<">",">",">"," ","L","a","s","t"," ","u","p","d","a","t","e"," ","o","f"," ","w","h","o","i","s"," ","d","a","t","a","b","a","s","e",":"," ","7"," ","<","<","<">>
L_noMatch          == <<"N","o"," ","m","a","t","c","h"," ","f","o","r"," ","d","o","m","a","i","n">>
L_domainName       == <<"D","o","m","a","i","n"," ","N","a","m","e",":"," ","E","X","A","M","P","L","E",".","C","O","M">>
L_registrar        == <<"R","e","g","i","s","t","r","a","r",":"," ","E","x","a","m","p","l","e"," ","R","e","g","i","s","t","r","a","r">>
L_expiry10         == <<"R","e","g","i","s","t","r","y"," ","E","x","p","i","r","y"," ","D","a","t","e",":"," ">> \o DateText(10 * TicksPerDay)
L_expiry60         == <<" "," "," ","R","e","g","i","s","t","r","y"," ","E","x","p","i","r","y"," ","D","a","t","e",":"," ">>
                      \o DateText(60 * TicksPerDay) \o <<"\r">>
L_created          == <<"C","r","e","a","t","i","o","n"," ","D","a","t","e",":"," ">> \o DateText(0 - 100 * TicksPerDay)
L_registrantName   == <<"R","e","g","i","s","t","r","a","n","t"," ","N","a","m","e",":"," ","J","o"," ","D","o","e">>
L_registrantEmail  == <<"R","e","g","i","s","t","r","a","n","t"," ","E","m","a","i","l",":"," ","j","o","@","e","x","a","m","p","l","e",".","c","o","m">>
L_registrantOrg    == <<"R","e","g","i","s","t","r","a","n","t"," ","O","r","g","a","n","i","z","a","t","i","o","n",":"," ","E","x","a","m","p","l","e"," ","O","r","g">>
L_statusLock       == <<"D","o","m","a","i","n"," ","S","t","a","t","u","s",":"," ","c","l","i","e","n","t","T","r","a","n","s","f","e","r","L","o","c","k"," ","h","t","t","p","s",":","/","/","i","c","a","n","n",".","o","r","g","/","e","p","p">>
L_statusOk         == <<"D","o","m","a","i","n"," ","S","t","a","t","u","s",":"," ","o","k">>
L_nameServer       == <<"N","a","m","e"," ","S","e","r","v","e","r",":"," ","N","S","1",".","E","X","A","M","P","L","E","-","I","S","P",".","N","E","T">>
L_dnssec           == <<"D","N","S","S","E","C",":"," ","u","n","s","i","g","n","e","d">>
L_emptyValue       == <<"R","e","g","i","s","t","r","a","n","t"," ","P","h","o","n","e",":">>

L_nameserverLower  == <<"n","a","m","e","s","e","r","v","e","r",":"," ","n","s","2",".","e","x","a","m","p","l","e","-","i","s","p",".","n","e","t">>
L_statusReason     == <<"S","t","a","t","u","s"," ","R","e","a","s","o","n",":"," ","h","o","l","d">>
L_dnssecSigned     == <<"D","N","S","S","E","C",":"," ","s","i","g","n","e","d","D","e","l","e","g","a","t","i","o","n">>
L_fax              == <<"F","a","x",":"," ","5","5","5">>

\* the text made of the given lines, each ended by a line feed
Lines(ls) == Concat([i \in 1..Len(ls) |-> ls[i] \o <<"\n">>])

\* registrar, expiry in 10 days, registrant name and email, nothing else
WhoisScenario ==
    Lines(<<L_comment, <<>>, L_registrar, L_expiry10, L_registrantName, L_registrantEmail,
            L_emptyValue, L_footer>>)

\* a young domain with status flags, no registrant name
WhoisRich ==
    Lines(<<L_domainName, L_registrar, L_created, L_expiry60, L_registrantOrg,
            L_statusLock, L_statusOk, L_nameServer, L_dnssec>>)

WhoisAnswers == {<<>>, Lines(<<L_comment, L_noMatch>>), WhoisScenario, WhoisRich}

\* queryWhoisServer settles with the response text or rejects (connection
\* error or timeout); getWhoisInfo catches the rejection and returns {}
getWhoisInfo(o) ==
    IF o.fails THEN EmptyObject
    ELSE IF o.answer = <<>> THEN EmptyObject
    ELSE parseWhoisResponse(o.answer)

\* what getWhoisInfo can return
WhoisResults == {[fails |-> o.fails, value |-> getWhoisInfo(o)] : o \in Outcomes(WhoisAnswers)}

PushWarning(r, w) ==
    [r EXCEPT !.metadata.warnings = Append(@, w)]

\* the same assignment without the else branch
WithWhoisSilent(r, whoisData) ==
    IF DOMAIN whoisData # {}
    THEN Set(r, "domain_registration", whoisData)
    ELSE r

\* result.domain_registration, or the warning
WithWhois(r, whoisData) ==
    IF DOMAIN whoisData # {}
    THEN Set(r, "domain_registration", whoisData)
    ELSE PushWarning(r, "WHOIS data unavailable")

\* Array.prototype.find: the first element satisfying the test, as a list of
\* at most one element
FirstIncluding(list, mark) ==
    LET hits == {i \in 1..Len(list) : Includes(list[i], mark)} IN
    IF hits = {} THEN <<>>
    ELSE <<list[CHOOSE i \in hits : \A j \in hits : i <= j]>>

\* the email section, built from the DNS answers when MX records exist
EmailSection(d) ==
    LET txtRecordsFlat == Concat(d.txt_records)
        spf == FirstIncluding(txtRecordsFlat, T_markSpf)
        e0 == [ mx_provider |-> detectEmailProvider(d.mx_records[1].exchange),
                mx_details  |-> [i \in 1..Len(d.mx_records) |->
                                   [ priority |-> d.mx_records[i].priority,
                                     exchange |-> d.mx_records[i].exchange,
                                     provider |-> detectEmailProvider(d.mx_records[i].exchange) ]] ]
        e1 == IF spf # <<>> /\ spf[1] # <<>> THEN Set(e0, "spf_record", spf[1]) ELSE e0
    IN  IF TruthyText(d, "dmarc_txt") THEN Set(e1, "dmarc_record", d.dmarc_txt) ELSE e1

WithEmail(r, d) ==
    IF Len(d.mx_records) > 0 THEN Set(r, "email", EmailSection(d)) ELSE r

\* the test if (dnsData.a_records): an array is truthy even when empty
HasARecordsArray(d) == Has(d, "a_records")

\* dnsData.a_records?.[0]
HasFirstA(d) == Len(d.a_records) > 0 /\ d.a_records[1] # <<>>

\* await getWhoisInfo(cleanDomain) and POST up to the IP lookup
WhoisLookup ==
    /\ pc = "whois"
    /\ \E r \in WhoisResults :
          /\ result' = WithEmail(WithWhois(result, r.value), dnsData)
          /\ allFailed' = (allFailed /\ r.fails)
          /\ failed' = IF r.fails THEN failed \cup {"whois"} ELSE failed
    /\ calls' = [calls EXCEPT !["whois"] = @ + 1]
    /\ pc' = IF HasFirstA(dnsData) THEN "ip" ELSE "risks"
    /\ UNCHANGED <<body, dnsData, riskScores, attackSurfaces, response, whoisQuery, now>>

-----------------------------------------------------------------------------
(* queryWhoisServer: the socket, its listeners and the promise *)

\* before net.createConnection
NoQuery ==
    [ created   |-> FALSE,   \* net.createConnection was called
      connected |-> FALSE,   \* "connect" was emitted and the query written
      response  |-> <<>>,    \* let response = ""
      chunks    |-> 0,       \* number of "data" events
      idle      |-> 0,       \* ticks since setTimeout or the last activity
      more      |-> FALSE,   \* data arrived after the chunks kept in response
      ended     |-> FALSE,   \* "end" was emitted
      destroyed |-> FALSE,   \* socket.destroy() was called, or an error closed it
      timedOut  |-> FALSE,   \* "timeout" was emitted
      promise   |-> [state |-> "pending", value |-> <<>>, reason |-> ""] ]

\* resolve(value) or reject(reason): only the first call settles the promise
Settle(promise, state, value, reason) ==
    IF promise.state = "pending"
    THEN [state |-> state, value |-> value, reason |-> reason]
    ELSE promise

\* the chunks a registry's answer arrives in
WhoisChunks ==
    { Lines(<<L_comment, L_registrar>>),
      Lines(<<L_expiry10, L_registrantName, L_registrantEmail>>),
      Lines(<<L_dnssecSigned>>) }

\* getWhoisInfo up to its await: new Promise(...), createConnection,
\* setTimeout and the five listeners
WhoisConnect ==
    /\ pc = "whois"
    /\ whoisQuery' = [NoQuery EXCEPT !.created = TRUE]
    /\ calls' = [calls EXCEPT !["whois"] = @ + 1]
    /\ pc' = "whois_wait"
    /\ UNCHANGED <<body, result, dnsData, riskScores, attackSurfaces, response, allFailed,
                   failed, now>>

\* an event of the socket leaves the handler where it waits
SocketEvent(q) ==
    /\ pc = "whois_wait"
    /\ whoisQuery.created
    /\ ~whoisQuery.destroyed
    /\ whoisQuery' = q
    /\ UNCHANGED <<pc, body, result, dnsData, riskScores, attackSurfaces, response, calls,
                   allFailed, failed, now>>

\* socket.on("connect"): the query is written; connecting and writing
\* restart the idle timer
SocketConnect ==
    /\ ~whoisQuery.connected
    /\ SocketEvent([whoisQuery EXCEPT !.connected = TRUE, !.idle = 0])

\* a tick passes without activity on the socket
SocketIdle ==
    /\ ~whoisQuery.ended
    /\ whoisQuery.idle < WhoisIdleTicks
    /\ SocketEvent([whoisQuery EXCEPT !.idle = @ + 1])

\* socket.on("data"): response += data.toString()
SocketData ==
    /\ whoisQuery.connected
    /\ ~whoisQuery.ended
    /\ whoisQuery.chunks < MaxChunks
    /\ \E c \in WhoisChunks :
          SocketEvent([whoisQuery EXCEPT !.response = @ \o c, !.chunks = @ + 1, !.idle = 0])

\* socket.on("data") of a peer that goes on sending: the idle timer restarts.
\* The text of the chunks after the first MaxChunks is not kept
SocketDataOn ==
    /\ whoisQuery.connected
    /\ ~whoisQuery.ended
    /\ whoisQuery.chunks = MaxChunks
    /\ whoisQuery.idle > 0
    /\ SocketEvent([whoisQuery EXCEPT !.idle = 0, !.more = TRUE])

\* socket.on("end"): resolve(response)
SocketEnd ==
    /\ whoisQuery.connected
    /\ ~whoisQuery.ended
    /\ SocketEvent([whoisQuery EXCEPT
                       !.ended = TRUE,
                       !.promise = Settle(@, "fulfilled", whoisQuery.response, "")])

\* a timeout listener that hands back what has arrived so far
SocketTimeoutResolving ==
    /\ ~whoisQuery.ended
    /\ whoisQuery.idle = WhoisIdleTicks
    /\ SocketEvent([whoisQuery EXCEPT
                       !.timedOut = TRUE,
                       !.destroyed = TRUE,
                       !.promise = Settle(@, "fulfilled", whoisQuery.response, "")])

\* socket.on("timeout"): socket.destroy(); reject(new Error(...)).  The
\* timer set by socket.setTimeout(10000) fires after that time without
\* activity, until the peer has closed the connection
SocketTimeout ==
    /\ ~whoisQuery.ended
    /\ whoisQuery.idle = WhoisIdleTicks
    /\ SocketEvent([whoisQuery EXCEPT
                       !.timedOut = TRUE,
                       !.destroyed = TRUE,
                       !.promise = Settle(@, "rejected", <<>>, "WHOIS query timeout")])

\* socket.on("error"): reject(err); the socket is closed after an error,
\* which can also follow the peer's end while the socket shuts down
SocketError ==
    SocketEvent([whoisQuery EXCEPT
                    !.destroyed = TRUE,
                    !.promise = Settle(@, "rejected", <<>>, "ECONNRESET")])

\* the await in getWhoisInfo resumes with the settled promise, and POST
\* continues up to the IP lookup
WhoisReturn ==
    /\ pc = "whois_wait"
    /\ whoisQuery.promise.state # "pending"
    /\ LET o == [ fails  |-> whoisQuery.promise.state = "rejected",
                  answer |-> whoisQuery.promise.value ]
       IN  /\ result' = WithEmail(WithWhois(result, getWhoisInfo(o)), dnsData)
           /\ allFailed' = (allFailed /\ o.fails)
           /\ failed' = IF o.fails THEN failed \cup {"whois"} ELSE failed
    /\ pc' = IF HasFirstA(dnsData) THEN "ip" ELSE "risks"
    /\ UNCHANGED <<body, dnsData, riskScores, attackSurfaces, response, calls, whoisQuery, now>>

-----------------------------------------------------------------------------
(* getIpWhoisInfo *)

\* a response of ipwhois.app: the HTTP status is ok or not, and the JSON body
IpResponse(ok, data) == [ok |-> ok, data |-> data]

IpAnswers ==
    { IpResponse(FALSE, EmptyObject),
      IpResponse(TRUE, [success |-> FALSE]),
      IpResponse(TRUE, [asn |-> "AS15133", org |-> "Edgecast Inc.", country |-> "United States",
                        is_vpn |-> FALSE, is_proxy |-> FALSE]),
      IpResponse(TRUE, [isp |-> "Example Hosting", country |-> "Germany", is_vpn |-> TRUE]) }

\* if (data.k) ipWhoisInfo.name = data.k, for a string-valued k
CopyStr(info, data, k, name) == IF TruthyStr(data, k) THEN Set(info, name, data[k]) ELSE info

CopyBool(info, data, k) == IF TruthyBool(data, k) THEN Set(info, k, TRUE) ELSE info

\* (country_code, continent, city, region, latitude and longitude are copied
\* the same way; no code of the handler reads them)
getIpWhoisInfo(o) ==
    IF o.fails THEN EmptyObject
    ELSE IF ~o.answer.ok THEN EmptyObject
    ELSE IF Has(o.answer.data, "success") /\ o.answer.data.success = FALSE THEN EmptyObject
    ELSE LET data == o.answer.data
             i1 == CopyStr(EmptyObject, data, "asn", "asn")
             i2 == CopyStr(i1, data, "org", "organization")
             i3 == CopyStr(i2, data, "isp", "isp")
             i4 == CopyStr(i3, data, "country", "country")
             i5 == CopyBool(i4, data, "is_vpn")
         IN  CopyBool(i5, data, "is_proxy")

\* what getIpWhoisInfo can return
IpResults == {[fails |-> o.fails, value |-> getIpWhoisInfo(o)] : o \in Outcomes(IpAnswers)}

\* result.hosting, always set once the lookup was awaited
WithHosting(r, d, ipWhoisData) ==
    Set(r, "hosting", [ ip_address     |-> d.a_records[1],
                        ipv6_addresses |-> d.aaaa_records,
                        ip_whois       |-> ipWhoisData ])

\* await getIpWhoisInfo(dnsData.a_records[0])
IpLookup ==
    /\ pc = "ip"
    /\ \E r \in IpResults :
          /\ result' = WithHosting(result, dnsData, r.value)
          /\ allFailed' = (allFailed /\ r.fails)
          /\ failed' = IF r.fails THEN failed \cup {"ip"} ELSE failed
    /\ calls' = [calls EXCEPT !["ip"] = @ + 1]
    /\ pc' = "risks"
    /\ UNCHANGED <<body, dnsData, riskScores, attackSurfaces, response, whoisQuery, now>>

-----------------------------------------------------------------------------
(* calculateInfrastructureRisks *)

Min(a, b) == IF a < b THEN a ELSE b
Max(a, b) == IF a > b THEN a ELSE b

\* a finding: its fixed words, and the number or text put into them
Finding(msg, n, text) == [msg |-> msg, n |-> n, text |-> text]

\* a contribution counted twice
RuleDoubled(points, findings, vectors) ==
    [points |-> 2 * points, findings |-> findings, vectors |-> vectors]

\* one contribution: points, findings and attack vectors
Rule(points, findings, vectors) == [points |-> points, findings |-> findings, vectors |-> vectors]
NoRule == Rule(0, <<>>, <<>>)

RECURSIVE SumPoints(_)
SumPoints(rules) == IF rules = <<>> THEN 0 ELSE Head(rules).points + SumPoints(Tail(rules))

RECURSIVE AllFindings(_)
AllFindings(rules) ==
    IF rules = <<>> THEN <<>> ELSE Head(rules).findings \o AllFindings(Tail(rules))

RECURSIVE AllVectors(_)
AllVectors(rules) ==
    IF rules = <<>> THEN <<>> ELSE Head(rules).vectors \o AllVectors(Tail(rules))

\* the thresholds read as inclusive
SeverityInclusive(score) ==
    IF score >= 70 THEN "critical"
    ELSE IF score >= 40 THEN "high"
    ELSE IF score >= 20 THEN "medium"
    ELSE "info"

\* score > 70 ? "critical" : score > 40 ? "high" : score > 20 ? "medium" : "info"
Severity(score) ==
    IF score > 70 THEN "critical"
    ELSE IF score > 40 THEN "high"
    ELSE IF score > 20 THEN "medium"
    ELSE "info"

\* Math.min(score, 100)
ClampScore(score) == Min(score, 100)

\* the RiskScore with its weight kept from falling below zero
RiskEntryNonNegativeWeight(category, rules) ==
    [ category      |-> category,
      score         |-> ClampScore(SumPoints(rules)),
      severity      |-> Severity(SumPoints(rules)),
      weight        |-> Max(SumPoints(rules), 0),
      findings      |-> AllFindings(rules),
      attackVectors |-> AllVectors(rules) ]

\* the RiskScore pushed for a category; weight is score / 100, in hundredths
RiskEntry(category, rules) ==
    [ category      |-> category,
      score         |-> ClampScore(SumPoints(rules)),
      severity      |-> Severity(SumPoints(rules)),
      weight        |-> SumPoints(rules),
      findings      |-> AllFindings(rules),
      attackVectors |-> AllVectors(rules) ]

\* regData.status.filter(s => s.toLowerCase().includes("lock") === false)
problematicStatuses(status) == SelectSeq(status, LAMBDA st : ~Includes(ToLowerCase(st), K_lock))

RegistrationRules(regData, t) ==
    << IF TruthyText(regData, "expiration_date")
       THEN IF ExpiresWithin(regData.expiration_date, t, 30)
            THEN Rule(25, <<Finding("Domain expires in N days - HIGH URGENCY",
                                    daysUntilExpiry(regData.expiration_date, t), <<>>)>>,
                      <<"Domain renewal phishing">>)
            ELSE IF ExpiresWithin(regData.expiration_date, t, 90)
            THEN Rule(15, <<Finding("Domain expires in N days",
                                    daysUntilExpiry(regData.expiration_date, t), <<>>)>>,
                      <<"Domain renewal notification">>)
            ELSE NoRule
       ELSE NoRule,
       IF TruthyText(regData, "creation_date") /\ YoungerThanAYear(regData.creation_date, t)
       THEN Rule(20, <<Finding("Domain is very new (< 1 year old)", 0, <<>>)>>,
                 <<"New domain registration phishing">>)
       ELSE NoRule,
       IF TruthyText(regData, "registrant_name")
       THEN Rule(10, <<Finding("Registrant publicly listed: ", 0, regData.registrant_name)>>,
                 <<"Registrant impersonation">>)
       ELSE NoRule,
       IF TruthyText(regData, "registrant_email")
       THEN Rule(8, <<Finding("Registrant email exposed: ", 0, regData.registrant_email)>>,
                 <<"Email-based social engineering">>)
       ELSE NoRule,
       IF TruthyText(regData, "registrar")
       THEN Rule(5, <<Finding("Registrar: ", 0, regData.registrar)>>,
                 <<"Registrar spoofing attacks">>)
       ELSE NoRule,
       IF TruthyText(regData, "status") /\ Len(problematicStatuses(regData.status)) > 0
       THEN Rule(15, <<Finding("Domain status issues: ", 0,
                               Join(problematicStatuses(regData.status), <<",", " ">>))>>,
                 <<"Domain hijacking risk">>)
       ELSE NoRule >>

DnsRules(dnsData_) ==
    << IF TruthyStr(dnsData_, "ns_provider")
       THEN IF dnsData_.ns_provider = "ISP/Registrar Default"
            THEN Rule(10, <<Finding("Using default/ISP nameservers - less secure", 0, <<>>)>>,
                      <<"DNS hijacking">>)
            ELSE Rule(-5, <<Finding("Using managed DNS: " \o dnsData_.ns_provider, 0, <<>>)>>, <<>>)
       ELSE NoRule,
       IF ~TruthyText(dnsData_, "dnssec") \/ dnsData_.dnssec = K_unsigned
       THEN Rule(20, <<Finding("DNSSEC not enabled - vulnerable to DNS spoofing", 0, <<>>)>>,
                 <<"DNS spoofing attacks", "Man-in-the-middle attacks">>)
       ELSE Rule(-10, <<Finding("DNSSEC enabled", 0, <<>>)>>, <<>>),
       IF Has(dnsData_, "nameservers") /\ Len(dnsData_.nameservers) < 2
       THEN Rule(15, <<Finding("Only 1 nameserver - single point of failure", 0, <<>>)>>,
                 <<"Single nameserver compromise">>)
       ELSE IF Has(dnsData_, "nameservers")
       THEN Rule(0, <<Finding("N nameservers configured", Len(dnsData_.nameservers), <<>>)>>, <<>>)
       ELSE NoRule,
       IF ~Has(dnsData_, "a_records") \/ Len(dnsData_.a_records) = 0
       THEN Rule(10, <<Finding("No A records found - site may be offline/misconfigured", 0, <<>>)>>,
                 <<>>)
       ELSE NoRule >>

EmailRules(emailData) ==
    << IF ~TruthyText(emailData, "spf_record")
       THEN Rule(25, <<Finding("SPF record NOT configured - email spoofing possible", 0, <<>>)>>,
                 <<"Email spoofing (high risk)", "Registrar spoofing", "Hosting provider phishing">>)
       ELSE Rule(-10, <<Finding("SPF record configured", 0, <<>>)>>, <<>>),
       IF ~TruthyText(emailData, "dmarc_record")
       THEN Rule(20, <<Finding("DMARC record NOT configured", 0, <<>>)>>,
                 <<"DMARC bypass phishing">>)
       ELSE Rule(-10, <<Finding("DMARC record configured", 0, <<>>)>>, <<>>),
       IF Has(emailData, "mx_provider") /\ emailData.mx_provider = "Custom/Self-hosted"
       THEN Rule(15, <<Finding("Self-hosted email - higher compromise risk", 0, <<>>)>>,
                 <<"Internal email system compromise">>)
       ELSE Rule(0, <<Finding("Email provider: " \o
                                (IF Has(emailData, "mx_provider") THEN emailData.mx_provider
                                 ELSE "undefined"), 0, <<>>)>>, <<>>),
       IF Has(emailData, "mx_details") /\ Len(emailData.mx_details) < 2
       THEN Rule(10, <<Finding("Only 1 MX record - single point of failure", 0, <<>>)>>,
                 <<"Email service failure">>)
       ELSE NoRule >>

HostingRules(hostingData) ==
    IF ~Has(hostingData, "ip_whois") THEN <<>>
    ELSE LET ipWhois == hostingData.ip_whois IN
    << IF TruthyBool(ipWhois, "is_vpn")
       THEN Rule(20, <<Finding("Hosting on VPN - suspicious activity possible", 0, <<>>)>>,
                 <<"Anonymized phishing hosting">>)
       ELSE NoRule,
       IF TruthyBool(ipWhois, "is_proxy")
       THEN Rule(15, <<Finding("Hosting behind proxy - possible malicious use", 0, <<>>)>>,
                 <<"Proxy-based phishing">>)
       ELSE NoRule,
       IF TruthyStr(ipWhois, "asn")
       THEN Rule(0, <<Finding("ASN: " \o ipWhois.asn, 0, <<>>)>>, <<"ASN-based targeting">>)
       ELSE NoRule,
       IF TruthyStr(ipWhois, "country") /\ ipWhois.country # "United States"
       THEN Rule(5, <<Finding("Hosted in: " \o ipWhois.country \o " - may indicate regional targeting",
                              0, <<>>)>>, <<>>)
       ELSE NoRule,
       Rule(0, <<Finding("Organization: " \o
                          (IF TruthyStr(ipWhois, "organization") THEN ipWhois.organization
                           ELSE "Unknown"), 0, <<>>)>>, <<>>) >>

WebRules(webData) ==
    << IF TruthyText(webData, "server_header")
       THEN Rule(0, <<Finding("Server: ", 0, webData.server_header)>>, <<"Server-specific exploits">>)
       ELSE NoRule,
       IF TruthyStr(webData, "cdn_provider")
       THEN Rule(-5, <<Finding("CDN: " \o webData.cdn_provider \o " - provides DDoS protection",
                               0, <<>>)>>, <<>>)
       ELSE IF TruthyStr(webData, "platform")
       THEN Rule(5, <<Finding("Web server: " \o webData.platform, 0, <<>>)>>,
                 <<webData.platform \o " vulnerability targeting">>)
       ELSE NoRule >>

\* the Web Server entry: weight is Math.max(webScore / 100, 0.1)
WebRiskEntry(rules) ==
    [RiskEntry("Web Server", rules) EXCEPT !.weight = Max(SumPoints(rules), 10)]

\* the scoring with the Hosting Infrastructure entry left out when the
\* section has no ip_whois
calculateRisksOfKnownHosts(data, t) ==
       (IF Has(data, "domain_registration")
        THEN <<RiskEntry("Domain Registration", RegistrationRules(data.domain_registration, t))>>
        ELSE <<>>)
    \o (IF Has(data, "dns") THEN <<RiskEntry("DNS Security", DnsRules(data.dns))>> ELSE <<>>)
    \o (IF Has(data, "email") THEN <<RiskEntry("Email Security", EmailRules(data.email))>> ELSE <<>>)
    \o (IF Has(data, "hosting") /\ Has(data.hosting, "ip_whois")
        THEN <<RiskEntry("Hosting Infrastructure", HostingRules(data.hosting))>> ELSE <<>>)
    \o (IF Has(data, "web_server") THEN <<WebRiskEntry(WebRules(data.web_server))>> ELSE <<>>)

\* calculateInfrastructureRisks(data), with Date.now() = t
calculateInfrastructureRisks(data, t) ==
       (IF Has(data, "domain_registration")
        THEN <<RiskEntry("Domain Registration", RegistrationRules(data.domain_registration, t))>>
        ELSE <<>>)
    \o (IF Has(data, "dns") THEN <<RiskEntry("DNS Security", DnsRules(data.dns))>> ELSE <<>>)
    \o (IF Has(data, "email") THEN <<RiskEntry("Email Security", EmailRules(data.email))>> ELSE <<>>)
    \o (IF Has(data, "hosting")
        THEN <<RiskEntry("Hosting Infrastructure", HostingRules(data.hosting))>> ELSE <<>>)
    \o (IF Has(data, "web_server") THEN <<WebRiskEntry(WebRules(data.web_server))>> ELSE <<>>)

\* calculateInfrastructureRisks(result) and the note POST adds
CalcRisks ==
    /\ pc = "risks"
    /\ riskScores' = calculateInfrastructureRisks(result, now)
    /\ result' = [result EXCEPT !.metadata.notes =
                     Append(@, "Risk scores calculated for each category")]
    /\ pc' = "surfaces"
    /\ UNCHANGED <<body, dnsData, attackSurfaces, response, calls, allFailed, failed, whoisQuery, now>>

-----------------------------------------------------------------------------
(* extractTop5AttackSurfaces *)

\* an AttackSurface; description and phishingTactic are fixed words around
\* `value` and are left out
Surface(vector, value, sev, score, weight) ==
    [vector |-> vector, value |-> value, riskSeverity |-> sev, riskScore |-> score, weight |-> weight]

TextValue(t) == [text |-> t]
StrValue(s) == [str |-> s]

\* severity, score and weight of a candidate
Risk3(sev, score, weight) == [sev |-> sev, score |-> score, weight |-> weight]

\* the Registrar tiers with the age check applied before the expiry tier
RegistrarRiskAgeFirst(reg, t) ==
    IF TruthyText(reg, "creation_date") /\ YoungerThanAYear(reg.creation_date, t)
    THEN [sev |-> "high", score |-> 80, weight |-> 80]
    ELSE IF TruthyText(reg, "expiration_date") /\ ExpiresWithin(reg.expiration_date, t, 90)
    THEN [sev |-> "high", score |-> 75, weight |-> 85]
    ELSE [sev |-> "medium", score |-> 50, weight |-> 70]

\* the Registrar tiers with the days until expiry rounded up
RegistrarRiskRoundingUp(reg, t) ==
    LET d == DateGetTime(IF TruthyText(reg, "expiration_date") THEN reg.expiration_date ELSE <<>>)
        days == 0 - ((t - d.time) \div TicksPerDay)
        byExpiry ==
            IF d.valid /\ days < 30 THEN Risk3("critical", 95, 95)
            ELSE IF d.valid /\ days < 90 THEN Risk3("high", 75, 85)
            ELSE Risk3("medium", 50, 70)
    IN  IF TruthyText(reg, "creation_date") /\ YoungerThanAYear(reg.creation_date, t)
        THEN Risk3("high", Max(byExpiry.score, 80), Max(byExpiry.weight, 80))
        ELSE byExpiry

\* 1. Registrar: the expiry tier, then the age check
RegistrarRisk(reg, t) ==
    LET byExpiry ==
            IF TruthyText(reg, "expiration_date") /\ ExpiresWithin(reg.expiration_date, t, 30)
            THEN Risk3("critical", 95, 95)
            ELSE IF TruthyText(reg, "expiration_date") /\ ExpiresWithin(reg.expiration_date, t, 90)
            THEN Risk3("high", 75, 85)
            ELSE Risk3("medium", 50, 70)
    IN  IF TruthyText(reg, "creation_date") /\ YoungerThanAYear(reg.creation_date, t)
        THEN Risk3("high", Max(byExpiry.score, 80), Max(byExpiry.weight, 80))
        ELSE byExpiry

\* the Email Provider tiers without the tier of both records missing
EmailProviderRiskTwoTiers(email) ==
    IF ~TruthyText(email, "spf_record") \/ ~TruthyText(email, "dmarc_record")
    THEN [sev |-> "high", score |-> 75, weight |-> 80]
    ELSE [sev |-> "low", score |-> 30, weight |-> 30]

\* 2. Email Provider: by the presence of SPF and DMARC
EmailProviderRisk(email) ==
    LET hasSpf == TruthyText(email, "spf_record")
        hasDmarc == TruthyText(email, "dmarc_record")
    IN  IF ~hasSpf /\ ~hasDmarc THEN Risk3("critical", 90, 90)
        ELSE IF ~hasSpf \/ ~hasDmarc THEN Risk3("high", 75, 80)
        ELSE Risk3("low", 30, 30)

\* 3. DNS Provider: by DNSSEC and the number of nameservers
DnsProviderRisk(dns) ==
    LET hasDnssec == TruthyText(dns, "dnssec") /\ dns.dnssec # K_unsigned
        nsCount == IF Has(dns, "nameservers") THEN Len(dns.nameservers) ELSE 0
    IN  IF ~hasDnssec /\ nsCount < 2 THEN Risk3("high", 80, 80)
        ELSE IF ~hasDnssec THEN Risk3("medium", 60, 60)
        ELSE Risk3("medium", 50, 60)

\* 4. Registrant Contact
RegistrantRisk(reg) ==
    IF TruthyText(reg, "registrant_email") THEN Risk3("high", 75, 75)
    ELSE Risk3("medium", 55, 65)

\* 5. Hosting Provider
HostingRisk(ipWhois) ==
    IF TruthyBool(ipWhois, "is_vpn") \/ TruthyBool(ipWhois, "is_proxy")
    THEN Risk3("high", 75, 75)
    ELSE Risk3("low", 40, 40)

\* data.section, or {} where optional chaining yields undefined
Section(data, k) == IF Has(data, k) THEN data[k] ELSE EmptyObject

WithRisk(vector, value, r) == Surface(vector, value, r.sev, r.score, r.weight)

\* the candidates pushed to `surfaces`, in the order of the six blocks
Candidates(data, t) ==
    LET reg   == Section(data, "domain_registration")
        email == Section(data, "email")
        dns   == Section(data, "dns")
        ipWhois == Section(Section(data, "hosting"), "ip_whois")
        web   == Section(data, "web_server")
    IN (IF TruthyText(reg, "registrar")
        THEN <<WithRisk("Registrar", TextValue(reg.registrar), RegistrarRisk(reg, t))>>
        ELSE <<>>)
    \o (IF TruthyStr(email, "mx_provider")
        THEN <<WithRisk("Email Provider", StrValue(email.mx_provider), EmailProviderRisk(email))>>
        ELSE <<>>)
    \o (IF TruthyStr(dns, "ns_provider")
        THEN <<WithRisk("DNS Provider", StrValue(dns.ns_provider), DnsProviderRisk(dns))>>
        ELSE <<>>)
    \o (IF TruthyText(reg, "registrant_name") \/ TruthyText(reg, "registrant_organization")
        THEN <<WithRisk("Registrant Contact",
                        TextValue(IF TruthyText(reg, "registrant_name") THEN reg.registrant_name
                                  ELSE reg.registrant_organization),
                        RegistrantRisk(reg))>>
        ELSE <<>>)
    \o (IF TruthyStr(ipWhois, "organization") \/ TruthyStr(ipWhois, "isp")
        THEN <<WithRisk("Hosting Provider",
                        StrValue(IF TruthyStr(ipWhois, "organization") THEN ipWhois.organization
                                 ELSE ipWhois.isp),
                        HostingRisk(ipWhois))>>
        ELSE <<>>)
    \o (IF TruthyStr(web, "platform") \/ TruthyText(web, "server_header")
        THEN <<Surface("Web Server",
                       StrValue(IF TruthyStr(web, "platform") THEN web.platform ELSE "Unknown"),
                       "low", 35, 35)>>
        ELSE <<>>)

\* the comparator with its operands exchanged
CompareAscending(a, b) == a.riskScore - b.riskScore

\* the comparator of the sort: (b.riskScore || 0) - (a.riskScore || 0)
Compare(a, b) == b.riskScore - a.riskScore

RECURSIVE InsertBeforeEqual(_, _)
\* x put into the sorted list before the elements it ties with
InsertBeforeEqual(sorted, x) ==
    IF sorted = <<>> THEN <<x>>
    ELSE IF Compare(Head(sorted), x) >= 0 THEN <<x>> \o sorted
    ELSE <<Head(sorted)>> \o InsertBeforeEqual(Tail(sorted), x)

RECURSIVE InsertSorted(_, _)
\* x put into the sorted list after every element it does not precede
InsertSorted(sorted, x) ==
    IF sorted = <<>> THEN <<x>>
    ELSE IF Compare(Head(sorted), x) > 0 THEN <<x>> \o sorted
    ELSE <<Head(sorted)>> \o InsertSorted(Tail(sorted), x)

RECURSIVE SortSurfaces(_)
\* Array.prototype.sort with Compare: a stable sort
SortSurfaces(list) ==
    IF list = <<>> THEN <<>>
    ELSE InsertSorted(SortSurfaces(SubSeq(list, 1, Len(list) - 1)), list[Len(list)])

\* .slice(-n): the last n entries
SliceLast(list, n) == SubSeq(list, Max(1, Len(list) - n + 1), Len(list))

\* .slice(0, n)
Slice(list, n) == SubSeq(list, 1, Min(n, Len(list)))

\* the lookup map built from riskScores; nothing below reads it
RiskMap(scores) ==
    [c \in {scores[i].category : i \in 1..Len(scores)} |->
        scores[CHOOSE i \in 1..Len(scores) :
                  /\ scores[i].category = c
                  /\ \A j \in 1..Len(scores) : scores[j].category = c => j <= i]]

\* the extraction with the Registrar candidate scored by riskMap
extractTop5ByCategoryScore(data, scores, t) ==
    LET riskMap == RiskMap(scores)
        surfaces == Candidates(data, t)
        rescored == [i \in 1..Len(surfaces) |->
                        IF surfaces[i].vector = "Registrar" /\ "Domain Registration" \in DOMAIN riskMap
                        THEN [surfaces[i] EXCEPT !.riskScore = riskMap["Domain Registration"].score]
                        ELSE surfaces[i]]
    IN  Slice(SortSurfaces(rescored), 5)

\* extractTop5AttackSurfaces(data, riskScores), with Date.now() = t
extractTop5AttackSurfaces(data, scores, t) ==
    LET riskMap == RiskMap(scores) IN
    Slice(SortSurfaces(Candidates(data, t)), 5)

\* extractTop5AttackSurfaces(result, riskScores) and the success response
ExtractSurfaces ==
    /\ pc = "surfaces"
    /\ attackSurfaces' = extractTop5AttackSurfaces(result, riskScores, now)
    /\ response' = Respond200
    /\ pc' = "done"
    /\ UNCHANGED <<body, result, dnsData, riskScores, calls, allFailed, failed, whoisQuery, now>>

-----------------------------------------------------------------------------
(* Inputs of the normalization *)

PrefixPieces == {T_http, T_https, T_HTTP, T_HTTPS, T_www, T_WWW}

RECURSIVE PrefixChains(_)
\* every concatenation of at most n prefix pieces
PrefixChains(n) ==
    IF n = 0 THEN {<<>>}
    ELSE PrefixChains(n - 1) \cup {p \o c : p \in PrefixPieces, c \in PrefixChains(n - 1)}

DomainInputs ==
    {p \o h \o t : p \in PrefixChains(MaxPrefixes),
                   h \in {T_example, T_Example},
                   t \in {<<>>, T_slash, T_path}}

InvalidBodies ==
    {UnparsableBody, NullBody, ObjectBody("undefined", <<>>), ObjectBody("number", <<>>),
     ObjectBody("string", <<>>)}

InitCommon ==
    /\ pc = "start"
    /\ result = EmptyObject
    /\ dnsData = EmptyObject
    /\ riskScores = <<>>
    /\ attackSurfaces = <<>>
    /\ response = NoResponse
    /\ calls = NoCalls
    /\ allFailed = TRUE
    /\ failed = {}
    /\ whoisQuery = NoQuery
    /\ now = 0

-----------------------------------------------------------------------------
(* Inputs of the two scoring passes *)

T_registrar  == <<"E","x","a","m","p","l","e"," ","R","e","g","i","s","t","r","a","r">>
T_person     == <<"J","o"," ","D","o","e">>
T_org        == <<"E","x","a","m","p","l","e"," ","O","r","g">>
T_mail       == <<"j","o","@","e","x","a","m","p","l","e",".","c","o","m">>
T_statusLock == <<"c","l","i","e","n","t","T","r","a","n","s","f","e","r","L","o","c","k">>
T_statusOk   == <<"o","k">>
T_signed     == <<"s","i","g","n","e","d","D","e","l","e","g","a","t","i","o","n">>
T_notADate   == <<"s","o","o","n">>

\* the objects with key k absent, or set to a value of S
Opt(k, S) == {EmptyObject} \cup {k :> v : v \in S}

\* the objects made of one object of A and one of B
Cross(A, B) == {a @@ b : a \in A, b \in B}

\* expiry dates around the 30 and 90 day thresholds, past, and unparsable
ExpiryTexts ==
    {DateText(t) : t \in {0 - 1, 10 * TicksPerDay, 30 * TicksPerDay - 1, 30 * TicksPerDay,
                          90 * TicksPerDay - 1, 90 * TicksPerDay}} \cup {T_notADate}

\* creation dates around one year of age, and unparsable
CreationTexts ==
    {DateText(t) : t \in {1 - 365 * TicksPerDay, 0 - 365 * TicksPerDay,
                          0 - 2 * 365 * TicksPerDay}} \cup {T_notADate}

StatusLists == {<<>>, <<T_statusLock>>, <<T_statusOk>>, <<T_statusLock, T_statusOk>>}

RegFull ==
    Cross(Opt("registrar", {T_registrar}),
    Cross(Opt("expiration_date", ExpiryTexts),
    Cross(Opt("creation_date", CreationTexts),
    Cross(Opt("registrant_name", {T_person}),
    Cross(Opt("registrant_organization", {T_org}),
    Cross(Opt("registrant_email", {T_mail}),
          Opt("status", StatusLists)))))))

DnsFull ==
    Cross(Opt("ns_provider", {"Unknown", "ISP/Registrar Default", "Cloudflare"}),
    Cross(Opt("dnssec", {K_unsigned, T_signed}),
    Cross(Opt("nameservers", {Repeat(T_nsIsp, k) : k \in 0..MaxRecords}),
          Opt("a_records", {Repeat(T_ipv4, k) : k \in 0..1}))))

EmailFull ==
    Cross(Opt("mx_provider", {"Custom/Self-hosted", "Google Workspace"}),
    Cross(Opt("spf_record", {T_txtSpf}),
    Cross(Opt("dmarc_record", {T_txtDmarc}),
          Opt("mx_details", {Repeat([priority |-> 10, exchange |-> T_mxCustom,
                                     provider |-> "Custom/Self-hosted"], k) : k \in 1..MaxRecords}))))

IpWhoisFull ==
    Cross(Opt("is_vpn", {TRUE}),
    Cross(Opt("is_proxy", {TRUE}),
    Cross(Opt("asn", {"AS15133"}),
    Cross(Opt("country", {"United States", "Germany"}),
    Cross(Opt("organization", {"Edgecast Inc."}),
          Opt("isp", {"Example Hosting"}))))))

HostingFull == Cross({[ip_address |-> T_ipv4]}, Opt("ip_whois", IpWhoisFull))

WebFull ==
    Cross(Opt("server_header", {<<>>, T_serverNginx}),
    Cross(Opt("platform", {"Nginx"}),
          Opt("cdn_provider", {"Cloudflare"})))

\* one typical section of each kind
RegTypical     == [registrar |-> T_registrar, registrant_name |-> T_person]
DnsTypical     == [ns_provider |-> "Cloudflare", nameservers |-> Repeat(T_nsCloudflare, 2),
                   a_records |-> <<T_ipv4>>]
EmailTypical   == [mx_provider |-> "Google Workspace", spf_record |-> T_txtSpf]
HostingTypical == [ip_address |-> T_ipv4, ip_whois |-> [organization |-> "Edgecast Inc."]]
WebTypical     == [server_header |-> T_serverNginx, platform |-> "Nginx"]

\* the sections that give every score a candidate surface can take
RegScores ==
    {r \in RegFull : /\ ~Has(r, "status") /\ ~Has(r, "registrant_organization")
                     /\ Has(r, "expiration_date") =>
                           r.expiration_date \in {DateText(10 * TicksPerDay), DateText(90 * TicksPerDay - 1)}
                     /\ Has(r, "creation_date") =>
                           r.creation_date = DateText(1 - 365 * TicksPerDay)}
DnsScores ==
    {d \in DnsFull : /\ Has(d, "a_records") /\ Has(d, "nameservers")
                     /\ Len(d.a_records) = 1 /\ Len(d.nameservers) \in {1, 2}
                     /\ Has(d, "ns_provider") => d.ns_provider = "Cloudflare"
                     /\ Has(d, "dnssec") => d.dnssec = T_signed}
EmailScores == {e \in EmailFull : Has(e, "mx_provider") /\ ~Has(e, "mx_details")
                                  /\ e.mx_provider = "Google Workspace"}
HostingScores ==
    {h \in HostingFull : /\ Has(h, "ip_whois")
                         /\ DOMAIN h.ip_whois \in {{"organization"}, {"organization", "is_vpn"}}}

\* the sections of an InfrastructureData: each one absent or drawn from its set
Sections(regs, dnss, emails, hostings, webs) ==
    Cross(Opt("domain_registration", regs),
    Cross(Opt("dns", dnss),
    Cross(Opt("email", emails),
    Cross(Opt("hosting", hostings),
          Opt("web_server", webs)))))

\* the InfrastructureData holding the sections s
DataWith(s) == s @@ NewResult(T_example, 0)

\* the two passes applied to an InfrastructureData: every value of one
\* section beside typical others, or any combination of candidate scores
InitScoring ==
    /\ pc = "risks"
    /\ body = ObjectBody("string", T_example)
    /\ \/ \E s \in Sections(RegFull, {DnsTypical}, {EmailTypical}, {HostingTypical}, {WebTypical}) :
             result = DataWith(s)
       \/ \E s \in Sections({RegTypical}, DnsFull, {EmailTypical}, {HostingTypical}, {WebTypical}) :
             result = DataWith(s)
       \/ \E s \in Sections({RegTypical}, {DnsTypical}, EmailFull, {HostingTypical}, {WebTypical}) :
             result = DataWith(s)
       \/ \E s \in Sections({RegTypical}, {DnsTypical}, {EmailTypical}, HostingFull, {WebTypical}) :
             result = DataWith(s)
       \/ \E s \in Sections({RegTypical}, {DnsTypical}, {EmailTypical}, {HostingTypical}, WebFull) :
             result = DataWith(s)
       \/ \E s \in Sections(RegScores, DnsScores, EmailScores, HostingScores, {WebTypical}) :
             result = DataWith(s)
    /\ dnsData = EmptyObject
    /\ riskScores = <<>>
    /\ attackSurfaces = <<>>
    /\ response = NoResponse
    /\ calls = NoCalls
    /\ allFailed = TRUE
    /\ failed = {}
    /\ whoisQuery = NoQuery
    /\ now = 0

NextScoring == CalcRisks \/ ExtractSurfaces

SpecScoring == InitScoring /\ [][NextScoring]_vars

-----------------------------------------------------------------------------
(* The handler *)

Init ==
    /\ body \in InvalidBodies \cup {ObjectBody("string", T_example)}
    /\ InitCommon

Next ==
    \/ Receive
    \/ ResolveNs \/ ResolveA \/ ResolveAaaa \/ ResolveMx \/ ResolveTxt \/ ResolveSoa
    \/ ResolveDmarc
    \/ HttpProbe
    \/ WhoisLookup
    \/ IpLookup
    \/ CalcRisks
    \/ ExtractSurfaces

Spec == Init /\ [][Next]_vars

-----------------------------------------------------------------------------
(* The normalization of any input domain *)

InitNormalize ==
    /\ body \in InvalidBodies \cup {ObjectBody("string", d) : d \in DomainInputs}
    /\ InitCommon

NextNormalize == Receive

SpecNormalize == InitNormalize /\ [][NextNormalize]_vars

-----------------------------------------------------------------------------
(* The handler from the WHOIS query on, the query event by event *)

\* what resolveDNS returned: NS answered, AAAA, TXT and SOA failed, _dmarc
\* answered without a record
DnsResolved(a, mx) ==
    [ nameservers  |-> <<T_nsIsp>>,
      a_records    |-> a,
      aaaa_records |-> <<>>,
      mx_records   |-> mx,
      txt_records  |-> <<>>,
      soa_record   |-> <<>> ]

\* POST at the call of getWhoisInfo, after resolveDNS and the HTTP probe
InitWhois ==
    /\ pc = "whois"
    /\ body = ObjectBody("string", T_example)
    /\ \E a \in {<<>>, <<T_ipv4>>}, mx \in {<<>>, <<[priority |-> 10, exchange |-> T_mxCustom]>>},
          r \in HttpResults :
          /\ dnsData = DnsResolved(a, mx)
          /\ result = WithWebServer(WithDns(NewResult(T_example, 0), dnsData), r.value)
          /\ failed = {"aaaa", "txt", "soa"} \cup (IF mx = <<>> THEN {"mx"} ELSE {})
                           \cup (IF r.fails THEN {"http"} ELSE {})
    /\ riskScores = <<>>
    /\ attackSurfaces = <<>>
    /\ response = NoResponse
    /\ calls = [l \in DOMAIN NoCalls |-> IF l \in {"whois", "ip"} THEN 0 ELSE 1]
    /\ allFailed = FALSE
    /\ whoisQuery = NoQuery
    /\ now = 0

NextWhois ==
    \/ WhoisConnect
    \/ SocketConnect
    \/ SocketIdle
    \/ SocketData
    \/ SocketEnd
    \/ SocketTimeout
    \/ SocketError
    \/ WhoisReturn
    \/ IpLookup
    \/ CalcRisks
    \/ ExtractSurfaces

SpecWhois == InitWhois /\ [][NextWhois]_vars

-----------------------------------------------------------------------------
(* The WHOIS query against any peer, as time passes *)

NextWhoisLive ==
    \/ WhoisConnect
    \/ SocketConnect
    \/ SocketIdle
    \/ SocketData
    \/ SocketDataOn
    \/ SocketEnd
    \/ SocketTimeout
    \/ SocketError
    \/ WhoisReturn

\* time passes and a due timer fires; the peer is free to do anything or
\* nothing
SpecWhoisLive ==
    /\ InitWhois
    /\ [][NextWhoisLive]_vars
    /\ WF_vars(SocketIdle)
    /\ WF_vars(SocketTimeout)

-----------------------------------------------------------------------------
(* parseWhoisResponse on the text of an answered query *)

\* comment, footer, colon-less, valueless, matching and unknown lines
WhoisLines ==
    { L_comment, L_footer, L_noMatch, L_emptyValue, L_nameServer, L_nameserverLower,
      L_statusLock, L_statusReason, L_registrantEmail, L_fax }

WhoisTexts == {Lines(ls) : ls \in UNION {[1..n -> WhoisLines] : n \in 0..MaxLines}}

\* the socket after "end": the promise is fulfilled with the whole response
AnsweredQuery(text) ==
    [ created   |-> TRUE,
      connected |-> TRUE,
      response  |-> text,
      chunks    |-> IF text = <<>> THEN 0 ELSE 1,
      idle      |-> 0,
      more      |-> FALSE,
      ended     |-> TRUE,
      destroyed |-> FALSE,
      timedOut  |-> FALSE,
      promise   |-> [state |-> "fulfilled", value |-> text, reason |-> ""] ]

\* POST waiting in getWhoisInfo for a query that the registry has answered
InitParse ==
    /\ pc = "whois_wait"
    /\ body = ObjectBody("string", T_example)
    /\ dnsData = DnsResolved(<<>>, <<>>)
    /\ \E r \in HttpResults :
          /\ r.fails
          /\ result = WithWebServer(WithDns(NewResult(T_example, 0), dnsData), r.value)
    /\ failed = {"aaaa", "txt", "soa", "mx", "http"}
    /\ riskScores = <<>>
    /\ attackSurfaces = <<>>
    /\ response = NoResponse
    /\ calls = [l \in DOMAIN NoCalls |-> IF l = "ip" THEN 0 ELSE 1]
    /\ allFailed = FALSE
    /\ \E text \in WhoisTexts : whoisQuery = AnsweredQuery(text)
    /\ now = 0

NextParse == WhoisReturn

SpecParse == InitParse /\ [][NextParse]_vars

-----------------------------------------------------------------------------
(* Properties of the normalization *)

\* a stored domain in normal form: lowercase, no scheme, no leading "www.",
\* no path
IsNormalized(d) ==
    /\ \A i \in 1..Len(d) : ~IsUpperChar(d[i])
    /\ ~StartsWith(d, T_http)
    /\ ~StartsWith(d, T_https)
    /\ ~StartsWith(d, T_www)
    /\ ~Includes(d, T_slash)

\* C1: for every string domain POST accepts, result.domain is lowercase and
\* has no http:// or https:// prefix, no leading "www." and no "/", whatever
\* the case and format of the input; HTTPS://WWW.Example.com/path is stored
\* as example.com.
C1_DomainIsNormalized ==
    pc = "dns_ns" =>
        /\ IsNormalized(result.domain)
        /\ body.text = T_HTTPS \o T_WWW \o T_Example \o T_path => result.domain = T_example

\* the upper-case input, accepted and stored as "https:"
C1_UpperCaseSchemeKept ==
    /\ pc = "dns_ns"
    /\ body.text = T_HTTPS \o T_WWW \o T_Example \o T_path
    /\ result.domain = <<"h","t","t","p","s",":">>

-----------------------------------------------------------------------------
(* Properties of the two scoring passes *)

\* C2: for every InfrastructureData, the list extractTop5AttackSurfaces
\* returns has at most 5 entries, and each entry's riskScore is at least the
\* riskScore of the entry after it.
C2_AtMostFiveSortedDescending ==
    pc = "done" =>
        /\ Len(attackSurfaces) <= 5
        /\ \A i \in 1..(Len(attackSurfaces) - 1) :
              attackSurfaces[i].riskScore >= attackSurfaces[i + 1].riskScore

\* six candidates, pushed out of order, of which five are returned
C2_SixCandidatesOutOfOrder ==
    /\ pc = "done"
    /\ Len(Candidates(result, now)) = 6
    /\ \E i \in 1..5 : Candidates(result, now)[i].riskScore < Candidates(result, now)[i + 1].riskScore
    /\ Len(attackSurfaces) = 5

\* C6: in every RiskScore calculateInfrastructureRisks returns, the severity
\* follows from the returned score alone: critical above 70, high above 40,
\* medium above 20, info otherwise (a negative score included).
C6_SeverityFollowsScore ==
    \A i \in 1..Len(riskScores) :
        LET r == riskScores[i] IN
        r.severity = IF r.score > 70 THEN "critical"
                     ELSE IF r.score > 40 THEN "high"
                     ELSE IF r.score > 20 THEN "medium"
                     ELSE "info"

\* scores on the thresholds 70, 40 and 20, a score above 70 and a negative
\* one have been returned
C6_ScoreOnThreshold ==
    /\ riskScores # <<>>
    /\ \E i \in 1..Len(riskScores) :
          /\ riskScores[i].score \in {20, 40, 70}
          /\ riskScores[i].severity = Severity(riskScores[i].score)
    /\ \E i \in 1..Len(riskScores) : riskScores[i].score = 70 /\ riskScores[i].severity = "high"

\* C10: every score calculateInfrastructureRisks returns lies in 0..100,
\* for every category and input, also when the risk-reducing contributions
\* outweigh the others.
C10_ScoreWithinRange ==
    \A i \in 1..Len(riskScores) : 0 <= riskScores[i].score /\ riskScores[i].score <= 100

\* a Web Server score below zero: a CDN and nothing else
C10_NegativeWebScore ==
    \E i \in 1..Len(riskScores) :
        /\ riskScores[i].category = "Web Server"
        /\ riskScores[i].score = 0 - 5
        /\ riskScores[i].severity = "info"

-----------------------------------------------------------------------------
(* Properties of the handler *)

Lookups == {"ns", "a", "aaaa", "mx", "txt", "soa", "dmarc", "http", "whois", "ip"}

\* every lookup the handler always makes has been made, and each one failed
EveryLookupFailed ==
    /\ pc = "done"
    /\ \A l \in Lookups \ {"ip"} : calls[l] = 1
    /\ allFailed

\* C3: when every lookup of a request fails, the handler still answers 200
\* with a warning in result.metadata.warnings; the 500 answer is never given
\* once a lookup has been started.
C3_TotalFailureStillSucceeds ==
    /\ EveryLookupFailed => response.status = 200 /\ Len(result.metadata.warnings) > 0
    /\ response.status = 500 => calls = NoCalls

\* the request whose lookups all failed, answered 200 with no attack surface
C3_AllLookupsFailed ==
    /\ EveryLookupFailed
    /\ response.status = 200
    /\ calls["ip"] = 0
    /\ riskScores = <<>>
    /\ attackSurfaces = <<>>

\* C4: with zero A records (a failed query or an empty answer) the IP lookup
\* is never made and result.hosting is absent; the IP lookup is made only
\* after the A query has answered with at least one address.
C4_IpLookupNeedsARecord ==
    /\ (Has(dnsData, "a_records") /\ dnsData.a_records = <<>>) =>
           pc # "ip" /\ calls["ip"] = 0 /\ ~Has(result, "hosting")
    /\ (pc = "ip" \/ calls["ip"] > 0) =>
           calls["a"] = 1 /\ Has(dnsData, "a_records") /\ Len(dnsData.a_records) >= 1

\* a request answered without A records, the other sections being present
C4_AnsweredWithoutARecord ==
    /\ pc = "done"
    /\ response.status = 200
    /\ dnsData.a_records = <<>>
    /\ calls["whois"] = 1
    /\ calls["ip"] = 0
    /\ Has(result, "domain_registration")
    /\ Has(result, "email")

\* MX records exist; no TXT record carries v=spf1 and no DMARC record was found
MxWithoutSpfAndDmarc ==
    /\ pc = "done"
    /\ response.status = 200
    /\ Len(dnsData.mx_records) > 0
    /\ \A i \in 1..Len(dnsData.txt_records) :
          \A j \in 1..Len(dnsData.txt_records[i]) :
              ~Includes(dnsData.txt_records[i][j], T_markSpf)
    /\ ~TruthyText(dnsData, "dmarc_txt")

\* C5: when at least one MX record exists and neither SPF nor DMARC was
\* found, the Email Security score is at least 45 and the Email Provider
\* attack surface is critical with riskScore 90 and weight 0.9, for every
\* provider and every number of MX records.
C5_UnprotectedMailIsCritical ==
    MxWithoutSpfAndDmarc =>
        /\ \E i \in 1..Len(riskScores) :
              riskScores[i].category = "Email Security" /\ riskScores[i].score >= 45
        /\ \E i \in 1..Len(attackSurfaces) :
              /\ attackSurfaces[i].vector = "Email Provider"
              /\ attackSurfaces[i].riskSeverity = "critical"
              /\ attackSurfaces[i].riskScore = 90
              /\ attackSurfaces[i].weight = 90

\* two self-hosted MX records without SPF and DMARC, among five surfaces
C5_TwoUnprotectedMx ==
    /\ MxWithoutSpfAndDmarc
    /\ Len(dnsData.mx_records) = 2
    /\ Len(attackSurfaces) = 5
    /\ \E i \in 1..Len(riskScores) :
          riskScores[i].category = "Email Security" /\ riskScores[i].score = 60

\* the end-to-end scenario: example.com, one A record, no MX, no TXT, a WHOIS
\* answer giving the registrar, an expiry 10 days ahead and the registrant's
\* name and email, and Server: nginx without a CDN header
InScenario ==
    /\ pc = "done"
    /\ response.status = 200
    /\ result.domain = T_example
    /\ dnsData.a_records = <<T_ipv4>>
    /\ dnsData.mx_records = <<>>
    /\ dnsData.txt_records = <<>>
    /\ Has(result, "domain_registration")
    /\ result.domain_registration = [ registrar        |-> T_registrar,
                                      expiration_date  |-> DateText(10 * TicksPerDay),
                                      registrant_name  |-> T_person,
                                      registrant_email |-> T_mail ]
    /\ Has(result, "web_server")
    /\ result.web_server = [server_header |-> T_serverNginx, platform |-> "Nginx"]

\* the categories of the RiskScores returned
Categories == {riskScores[i].category : i \in 1..Len(riskScores)}

\* C7 (as stated): in the end-to-end scenario the Domain Registration
\* RiskScore is critical and has a finding giving the days until expiry; DNS
\* Security and Web Server are present and Email Security is absent.
C7_ScenarioRegistrationCritical ==
    InScenario =>
        /\ \E i \in 1..Len(riskScores) :
              /\ riskScores[i].category = "Domain Registration"
              /\ riskScores[i].severity = "critical"
              /\ \E j \in 1..Len(riskScores[i].findings) :
                    /\ riskScores[i].findings[j].msg \in
                           {"Domain expires in N days - HIGH URGENCY", "Domain expires in N days"}
                    /\ riskScores[i].findings[j].n = 10
        /\ {"DNS Security", "Web Server"} \subseteq Categories
        /\ "Email Security" \notin Categories

\* C7 (amended): in the end-to-end scenario the Domain Registration
\* RiskScore has score 48 and severity high, and the finding "Domain expires
\* in 10 days - HIGH URGENCY"; DNS Security and Web Server are present and
\* Email Security is absent.
C7_ScenarioRegistrationHigh ==
    InScenario =>
        /\ \E i \in 1..Len(riskScores) :
              /\ riskScores[i].category = "Domain Registration"
              /\ riskScores[i].score = 48
              /\ riskScores[i].severity = "high"
              /\ \E j \in 1..Len(riskScores[i].findings) :
                    riskScores[i].findings[j] =
                        Finding("Domain expires in N days - HIGH URGENCY", 10, <<>>)
        /\ {"DNS Security", "Web Server"} \subseteq Categories
        /\ "Email Security" \notin Categories

\* the scenario answered, with its RiskScores
C7_ScenarioScored ==
    /\ InScenario
    /\ "Domain Registration" \in Categories
    /\ Len(riskScores) >= 3

\* C8: in the end-to-end scenario attackSurfaces starts with the Registrar
\* entry, whose riskSeverity is critical and whose riskScore is at least 90.
C8_ScenarioRegistrarFirst ==
    InScenario =>
        /\ Len(attackSurfaces) >= 1
        /\ attackSurfaces[1].vector = "Registrar"
        /\ attackSurfaces[1].riskSeverity = "critical"
        /\ attackSurfaces[1].riskScore >= 90

\* the scenario answered with the Registrar ahead of other surfaces
C8_ScenarioSurfaces ==
    /\ InScenario
    /\ Len(attackSurfaces) >= 3
    /\ attackSurfaces[1].value = TextValue(T_registrar)
    /\ attackSurfaces[1].riskScore = 95

\* a parsed JSON body without a usable domain: null, or a value whose domain
\* member is absent, not a string, or the empty string
DomainMissingOrNotString ==
    /\ body.kind # "unparsable"
    /\ (body.kind = "null" \/ body.dtype # "string" \/ body.text = <<>>)

\* C9: a request whose domain is missing or not a string is answered 400
\* with an error message before any lookup is started; 400 is given for no
\* other reason, and an exception during orchestration gives 500.
C9_MissingDomainIsClientError ==
    /\ (pc = "done" /\ DomainMissingOrNotString) =>
           response.status = 400 /\ response.error # "" /\ calls = NoCalls
    /\ response.status = 400 => DomainMissingOrNotString
    /\ (pc = "done" /\ body.kind = "unparsable") => response.status = 500

\* the body null answered 500
C9_NullBodyAnswered500 ==
    /\ pc = "done"
    /\ body.kind = "null"
    /\ response.status = 500
    /\ calls = NoCalls

-----------------------------------------------------------------------------
(* Properties of the sections and warnings of a result *)

\* resolveDNS found no record of any type
DnsFoundNothing ==
    /\ dnsData.nameservers = <<>>
    /\ dnsData.a_records = <<>>
    /\ dnsData.aaaa_records = <<>>
    /\ dnsData.mx_records = <<>>
    /\ dnsData.txt_records = <<>>
    /\ dnsData.soa_record = <<>>
    /\ ~TruthyText(dnsData, "dmarc_txt")

\* C11: in every returned InfrastructureData a section is absent when its
\* source failed or produced nothing: domain_registration when WHOIS failed,
\* dns when no record was resolved, hosting when the IP lookup failed or
\* returned an empty object, web_server when the HTTP probe failed, email
\* when no MX record was resolved.
C11_FailedSourceLeavesNoSection ==
    (pc = "done" /\ response.status = 200) =>
        /\ "whois" \in failed => ~Has(result, "domain_registration")
        /\ Has(result, "domain_registration") => result.domain_registration # EmptyObject
        /\ DnsFoundNothing => ~Has(result, "dns")
        /\ "ip" \in failed => ~Has(result, "hosting")
        /\ Has(result, "hosting") => result.hosting.ip_whois # EmptyObject
        /\ "http" \in failed => ~Has(result, "web_server")
        /\ dnsData.mx_records = <<>> => ~Has(result, "email")

\* the IP lookup failed and the hosting section is returned around an empty
\* ip_whois
C11_HostingAfterFailedIpLookup ==
    /\ pc = "done"
    /\ response.status = 200
    /\ "ip" \in failed
    /\ Has(result, "hosting")
    /\ result.hosting.ip_whois = EmptyObject

\* the adapters that returned nothing in the request answered
AdaptersReturningNothing ==
    {a \in {"dns", "whois", "http", "ip"} :
        \/ a = "dns" /\ DnsFoundNothing
        \/ a = "whois" /\ ~Has(result, "domain_registration")
        \/ a = "http" /\ "http" \in failed
        \/ a = "ip" /\ calls["ip"] = 1 /\ result.hosting.ip_whois = EmptyObject}

\* C12: result.metadata.warnings holds a note for each adapter (DNS
\* resolution, WHOIS, HTTP probe, IP lookup) that returned nothing: there
\* are at least as many warnings as such adapters.
C12_WarningForEachSilentAdapter ==
    (pc = "done" /\ response.status = 200) =>
        Len(result.metadata.warnings) >= Cardinality(AdaptersReturningNothing)

\* the HTTP probe failed, WHOIS answered, and no warning was recorded
C12_FailedProbeWithoutWarning ==
    /\ pc = "done"
    /\ response.status = 200
    /\ "http" \in failed
    /\ "whois" \notin failed
    /\ Has(result, "domain_registration")
    /\ result.metadata.warnings = <<>>

-----------------------------------------------------------------------------
(* Properties of the attack-surface ranking *)

\* the place of a vector in the order the candidates are pushed
PushOrder(vector) ==
    CASE vector = "Registrar" -> 1
      [] vector = "Email Provider" -> 2
      [] vector = "DNS Provider" -> 3
      [] vector = "Registrant Contact" -> 4
      [] vector = "Hosting Provider" -> 5
      [] vector = "Web Server" -> 6

\* the candidates that were not returned
Dropped ==
    {c \in {Candidates(result, now)[k] : k \in 1..Len(Candidates(result, now))} :
        \A i \in 1..Len(attackSurfaces) : attackSurfaces[i] # c}

\* C13: entries of the result with equal riskScore keep the order Registrar,
\* Email Provider, DNS Provider, Registrant Contact, Hosting Provider, Web
\* Server, and a candidate dropped by the truncation to 5 comes later in that
\* order than every returned entry of the same riskScore.
C13_TiesKeepPushOrder ==
    pc = "done" =>
        /\ \A i, j \in 1..Len(attackSurfaces) :
              (i < j /\ attackSurfaces[i].riskScore = attackSurfaces[j].riskScore) =>
                  PushOrder(attackSurfaces[i].vector) < PushOrder(attackSurfaces[j].vector)
        /\ \A c \in Dropped : \A i \in 1..Len(attackSurfaces) :
              /\ attackSurfaces[i].riskScore >= c.riskScore
              /\ attackSurfaces[i].riskScore = c.riskScore =>
                     PushOrder(attackSurfaces[i].vector) < PushOrder(c.vector)

\* six candidates of which four tie at 75 behind a higher DNS Provider, one
\* being dropped
C13_FourWayTie ==
    /\ pc = "done"
    /\ Len(Candidates(result, now)) = 6
    /\ Dropped # {}
    /\ Len(attackSurfaces) = 5
    /\ attackSurfaces[1].vector = "DNS Provider"
    /\ \A i \in 2..5 : attackSurfaces[i].riskScore = 75

\* riskScores arguments: the empty list, one entry of a category with a
\* negative or a full score, and a list naming one category twice
ArbitraryScores ==
    LET entry(c, n, v) == [ category |-> c, score |-> n, severity |-> v, weight |-> n,
                            findings |-> <<>>, attackVectors |-> <<>> ]
    IN  {<<>>} \cup {<<entry(c, 0 - 20, "info")>> : c \in {"Domain Registration", "Email Security"}}
               \cup {<<entry(c, 100, "critical")>> : c \in {"Domain Registration", "Web Server"}}
               \cup {<<entry("Domain Registration", 100, "critical"),
                       entry("Domain Registration", 0, "info")>>}

\* C14: the list extractTop5AttackSurfaces returns depends on the
\* InfrastructureData only: with the same data, every riskScores argument
\* gives the same entries in the same order with the same riskSeverity,
\* riskScore and weight.
C14_SurfacesIgnoreRiskScores ==
    pc = "done" =>
        \A scores \in ArbitraryScores :
            extractTop5AttackSurfaces(result, scores, now) = attackSurfaces

\* surfaces extracted beside RiskScores that are none of the other arguments
C14_ExtractedWithOwnScores ==
    /\ pc = "done"
    /\ Len(attackSurfaces) >= 3
    /\ attackSurfaces[1].vector = "Registrar"
    /\ riskScores # <<>>
    /\ riskScores \notin ArbitraryScores

-----------------------------------------------------------------------------
(* Properties of the RiskScores *)

\* the sections of an InfrastructureData and their categories, in order
SectionCategories ==
    << [section |-> "domain_registration", category |-> "Domain Registration"],
       [section |-> "dns",                 category |-> "DNS Security"],
       [section |-> "email",               category |-> "Email Security"],
       [section |-> "hosting",             category |-> "Hosting Infrastructure"],
       [section |-> "web_server",          category |-> "Web Server"] >>

\* the categories of the sections present in data, in order
CategoriesPresent(data) ==
    LET present == SelectSeq(SectionCategories, LAMBDA sc : sc.section \in DOMAIN data)
    IN  [i \in 1..Len(present) |-> present[i].category]

\* C15: calculateInfrastructureRisks returns an entry for a category exactly
\* when the category's section is present in its input, one entry a
\* category, in the order Domain Registration, DNS Security, Email Security,
\* Hosting Infrastructure, Web Server; without sections it returns the empty
\* list.
C15_OneEntryPerPresentSection ==
    pc \in {"surfaces", "done"} =>
        [i \in 1..Len(riskScores) |-> riskScores[i].category] = CategoriesPresent(result)

\* scored: a hosting section without ip_whois beside a web server, the
\* other sections absent
C15_TwoSectionsScored ==
    /\ pc = "surfaces"
    /\ DOMAIN result \cap {"domain_registration", "dns", "email", "hosting", "web_server"}
           = {"hosting", "web_server"}
    /\ ~Has(result.hosting, "ip_whois")
    /\ Len(riskScores) = 2

-----------------------------------------------------------------------------
(* Properties of the lookups *)

\* the queries of resolveDNS before the _dmarc query: the lookup, the key it
\* fills and what it can answer
DnsQueries ==
    << [lookup |-> "ns",   key |-> "nameservers",  answers |-> NsAnswers],
       [lookup |-> "a",    key |-> "a_records",    answers |-> AAnswers],
       [lookup |-> "aaaa", key |-> "aaaa_records", answers |-> AaaaAnswers],
       [lookup |-> "mx",   key |-> "mx_records",   answers |-> MxAnswers],
       [lookup |-> "txt",  key |-> "txt_records",  answers |-> TxtAnswers],
       [lookup |-> "soa",  key |-> "soa_record",   answers |-> SoaAnswers] >>

DnsLookups == {"ns", "a", "aaaa", "mx", "txt", "soa", "dmarc"}

\* resolveDNS has returned
Resolved == pc \in {"http", "whois", "ip", "risks", "surfaces"} \/ (pc = "done" /\ response.status = 200)

\* C16: resolveDNS makes all seven queries whichever of them fail; a failed
\* query leaves an empty list (null for SOA and for _dmarc) under its own key
\* only, an answered query leaves its answer, a key once filled is not
\* changed, and no failure ends the request with status 500.
C16_SevenIndependentQueries ==
    /\ [](Resolved =>
            /\ \A l \in DnsLookups : calls[l] = 1
            /\ \A i \in 1..Len(DnsQueries) :
                  LET q == DnsQueries[i] IN
                  /\ Has(dnsData, q.key)
                  /\ q.lookup \in failed => DOMAIN dnsData[q.key] = {}
                  /\ q.lookup \notin failed => dnsData[q.key] \in q.answers
            /\ "dmarc" \in failed => Has(dnsData, "dmarc_txt") /\ dnsData.dmarc_txt = <<>>
            /\ "dmarc" \notin failed =>
                   ~Has(dnsData, "dmarc_txt") \/ Includes(dnsData.dmarc_txt, T_markDmarc))
    /\ [](response.status = 500 => calls = NoCalls)
    /\ [][\A k \in DOMAIN dnsData : Has(dnsData', k) /\ dnsData'[k] = dnsData[k]]_vars

\* NS, MX and SOA failed; A, AAAA, TXT and _dmarc answered
C16_ThreeOfSevenFailed ==
    /\ Resolved
    /\ failed \cap DnsLookups = {"ns", "mx", "soa"}
    /\ dnsData.nameservers = <<>>
    /\ dnsData.mx_records = <<>>
    /\ dnsData.soa_record = <<>>
    /\ Len(dnsData.a_records) = 2
    /\ dnsData.aaaa_records = <<T_ipv6>>
    /\ Len(dnsData.txt_records) = 2
    /\ TruthyText(dnsData, "dmarc_txt")

\* C17: in a valid request no lookup is issued twice or retried: the seven
\* DNS queries, the WHOIS query and the HTTP probe are each issued exactly
\* once, whatever DNS resolution gave, the IP lookup at most once, and a step
\* in which a lookup fails moves the handler on.
C17_EachLookupOnce ==
    /\ [](\A l \in Lookups : calls[l] <= 1)
    /\ []((pc = "done" /\ response.status = 200) =>
              \A l \in Lookups \ {"ip"} : calls[l] = 1)
    /\ [][/\ failed' # failed => pc' # pc
          /\ \A l \in Lookups : calls'[l] >= calls[l]
          /\ Cardinality({l \in Lookups : calls'[l] # calls[l]}) <= 1]_vars

\* answered after every DNS query failed: WHOIS and the HTTP probe were made
\* once and answered, the IP lookup was not made
C17_ProbedAfterDnsFailure ==
    /\ pc = "done"
    /\ response.status = 200
    /\ DnsLookups \subseteq failed
    /\ calls["whois"] = 1 /\ "whois" \notin failed
    /\ calls["http"] = 1 /\ "http" \notin failed
    /\ calls["ip"] = 0
    /\ Has(result, "web_server")
    /\ Has(result, "domain_registration")

-----------------------------------------------------------------------------
(* Properties of the WHOIS query *)

\* getWhoisInfo has returned to POST
WhoisReturned == pc \notin {"whois", "whois_wait"}

\* C19: when the timeout event of queryWhoisServer fires before the peer has
\* closed the connection, the socket is destroyed and the promise is rejected
\* with the timeout error whatever data has arrived; nothing settles it again
\* afterwards, and getWhoisInfo returns an empty record: domain_registration
\* is absent and "WHOIS data unavailable" is recorded.
C19_TimeoutFailsTheQuery ==
    /\ [](whoisQuery.timedOut =>
              /\ whoisQuery.destroyed
              /\ whoisQuery.promise.state = "rejected"
              /\ whoisQuery.promise.reason = "WHOIS query timeout")
    /\ []((whoisQuery.timedOut /\ WhoisReturned) =>
              /\ ~Has(result, "domain_registration")
              /\ \E i \in 1..Len(result.metadata.warnings) :
                    result.metadata.warnings[i] = "WHOIS data unavailable"
              /\ "whois" \in failed)
    /\ [][whoisQuery.timedOut => whoisQuery' = whoisQuery]_vars

\* the timeout fired after both chunks of a parsable answer had arrived, and
\* POST went on without domain_registration
C19_TimedOutWithData ==
    /\ WhoisReturned
    /\ whoisQuery.timedOut
    /\ whoisQuery.chunks = 2
    /\ Has(parseWhoisResponse(whoisQuery.response), "registrar")
    /\ Has(parseWhoisResponse(whoisQuery.response), "expiration_date")
    /\ ~Has(result, "domain_registration")
    /\ result.metadata.warnings = <<"WHOIS data unavailable">>

-----------------------------------------------------------------------------
(* Properties of the WHOIS parser *)

\* the key and the value of a line: what stands before and after the first
\* colon of the trimmed line
LineKey(line) ==
    LET t == Trim(line) IN ToLowerCase(Trim(SubSeq(t, 1, IndexOf(t, ":") - 1)))

LineValue(line) ==
    LET t == Trim(line) IN Trim(Drop(t, IndexOf(t, ":")))

\* blank, comment, colon-less and valueless lines
Skipped(line) ==
    LET t == Trim(line) IN
    \/ t = <<>>
    \/ Head(t) \in {"%", ">"}
    \/ IndexOf(t, ":") = 0
    \/ LineValue(line) = <<>>

NamesServer(key) == Includes(key, K_nameServer) \/ Includes(key, K_nameserver)
NamesStatus(key) == Includes(key, K_status)
NamesRegistrantEmail(key) == Includes(key, K_registrant) /\ Includes(key, K_email)

MatchesSomeRule(key) ==
    \/ NamesServer(key)
    \/ NamesStatus(key)
    \/ \E f \in ScalarFields : FieldMatches(f, key)

ValuesOf(lines) == [i \in 1..Len(lines) |-> LineValue(lines[i])]

\* two objects with the same keys and the same values
SameObject(a, b) == DOMAIN a = DOMAIN b /\ \A k \in DOMAIN a : a[k] = b[k]

\* a list field, empty when the key is absent
ListField(o, k) == IF Has(o, k) THEN o[k] ELSE <<>>

\* what getWhoisInfo returned to POST for the answered query
Parsed == IF Has(result, "domain_registration") THEN result.domain_registration ELSE EmptyObject

\* C20: parseWhoisResponse returns for every response text and preserves the
\* order of the lines: lines that are blank, begin with '%' or '>', have no
\* colon or have an empty value, and lines whose key matches no rule, can be
\* removed without changing the result; nameservers is the list of the values
\* of the remaining lines whose lowercased key contains 'name server' or
\* 'nameserver', in input order; status is the list of the values of the lines
\* whose key contains 'status', in input order; and registrant_email is set by
\* a line whose key contains 'registrant' and 'email'.
C20_ParserKeepsOrderAndSkips ==
    (WhoisReturned /\ whoisQuery.promise.state = "fulfilled") =>
        LET lines  == Split(whoisQuery.response, "\n")
            kept   == SelectSeq(lines, LAMBDA l : ~Skipped(l))
            emails == SelectSeq(kept, LAMBDA l : NamesRegistrantEmail(LineKey(l)))
        IN  /\ "whois" \notin failed
            /\ ListField(Parsed, "nameservers")
                  = ValuesOf(SelectSeq(kept, LAMBDA l : NamesServer(LineKey(l))))
            /\ ListField(Parsed, "status")
                  = ValuesOf(SelectSeq(kept, LAMBDA l : NamesStatus(LineKey(l))))
            /\ IF emails = <<>> THEN ~Has(Parsed, "registrant_email")
               ELSE Parsed.registrant_email = LineValue(emails[Len(emails)])
            /\ SameObject(Parsed,
                          parseWhoisResponse(
                              Lines(SelectSeq(kept, LAMBDA l : MatchesSomeRule(LineKey(l))))))

\* two name servers under the two spellings of the key, a footer line with a
\* colon between them
C20_TwoNameserversAroundFooter ==
    /\ WhoisReturned
    /\ whoisQuery.response = Lines(<<L_nameServer, L_footer, L_nameserverLower>>)
    /\ DOMAIN Parsed = {"nameservers"}
    /\ Len(Parsed.nameservers) = 2
    /\ Parsed.nameservers[1] = LineValue(L_nameServer)
    /\ Parsed.nameservers[2] = LineValue(L_nameserverLower)
    /\ Parsed.nameservers[1] # Parsed.nameservers[2]

-----------------------------------------------------------------------------
(* Properties of the DNSSEC status *)

\* the DNSSEC status the result reports, in whichever section carries it
ReportedDnssec ==
    IF Has(result, "dns") /\ TruthyText(result.dns, "dnssec") THEN result.dns.dnssec
    ELSE IF Has(result, "domain_registration")
            /\ TruthyText(result.domain_registration, "dnssec")
    THEN result.domain_registration.dnssec
    ELSE <<>>

\* the findings of the DNS Security entry, by their message
DnsFindings ==
    UNION {{riskScores[i].findings[j].msg : j \in 1..Len(riskScores[i].findings)} :
              i \in {k \in 1..Len(riskScores) : riskScores[k].category = "DNS Security"}}

\* C21: when a returned result with a dns section reports a DNSSEC status
\* that is present and not 'unsigned', DNS Security carries the finding
\* 'DNSSEC enabled' and not 'DNSSEC not enabled', and the DNS Provider surface
\* stays at its base medium/50.
C21_SignedDnssecLowersDnsRisk ==
    (/\ pc = "done"
     /\ response.status = 200
     /\ Has(result, "dns")
     /\ ReportedDnssec # <<>>
     /\ ReportedDnssec # K_unsigned) =>
        /\ "DNSSEC enabled" \in DnsFindings
        /\ "DNSSEC not enabled - vulnerable to DNS spoofing" \notin DnsFindings
        /\ \A i \in 1..Len(attackSurfaces) :
              attackSurfaces[i].vector = "DNS Provider" => attackSurfaces[i].riskScore = 50

\* WHOIS reported signedDelegation, and the result still scores DNSSEC as
\* not enabled: +20 and the single-nameserver escalation of the surface
C21_SignedDomainScoredUnsigned ==
    /\ pc = "done"
    /\ Has(result, "dns")
    /\ Has(result, "domain_registration")
    /\ Has(result.domain_registration, "dnssec")
    /\ result.domain_registration.dnssec = T_signed
    /\ ~Has(result.dns, "dnssec")
    /\ "DNSSEC not enabled - vulnerable to DNS spoofing" \in DnsFindings
    /\ \E i \in 1..Len(riskScores) :
          riskScores[i].category = "DNS Security" /\ riskScores[i].score = 45
    /\ \E i \in 1..Len(attackSurfaces) :
          attackSurfaces[i].vector = "DNS Provider" /\ attackSurfaces[i].riskScore = 80

-----------------------------------------------------------------------------
(* Properties of the Registrar surface *)

\* info < low < medium < high < critical
SeverityRank(sev) ==
    CASE sev = "info" -> 0 [] sev = "low" -> 1 [] sev = "medium" -> 2
      [] sev = "high" -> 3 [] sev = "critical" -> 4

\* the registration record of the scored data, {} when absent
Registration == Section(result, "domain_registration")

RegistrarKnown == TruthyText(Registration, "registrar")

\* the Registrar entries among the returned surfaces
RegistrarSurfaces == {i \in 1..Len(attackSurfaces) : attackSurfaces[i].vector = "Registrar"}

ExpiryTier(days) ==
    /\ TruthyText(Registration, "expiration_date")
    /\ ExpiresWithin(Registration.expiration_date, now, days)

UnderAYearOld ==
    /\ TruthyText(Registration, "creation_date")
    /\ YoungerThanAYear(Registration.creation_date, now)

\* what the same registration scores without its creation date, that is with
\* an age check that does not fire
WithoutAge ==
    RegistrarRisk([k \in (DOMAIN Registration) \ {"creation_date"} |-> Registration[k]], now)

\* C22: the Registrar surface is returned iff a registrar is known; expiry
\* in fewer than 30 days gives critical/95/0.95, in fewer than 90 days at
\* least high/75/0.85, and an age below one year never lowers severity,
\* riskScore or weight below what the same expiry gives without it.
C22_RegistrarAgeOnlyEscalates ==
    pc = "done" =>
        /\ (RegistrarSurfaces # {}) <=> RegistrarKnown
        /\ \A i \in RegistrarSurfaces : LET s == attackSurfaces[i] IN
              /\ ExpiryTier(30) =>
                    s.riskSeverity = "critical" /\ s.riskScore = 95 /\ s.weight = 95
              /\ (ExpiryTier(90) /\ ~ExpiryTier(30)) =>
                    SeverityRank(s.riskSeverity) >= 3 /\ s.riskScore >= 75 /\ s.weight >= 85
              /\ UnderAYearOld =>
                    /\ SeverityRank(s.riskSeverity) >= SeverityRank(WithoutAge.sev)
                    /\ s.riskScore >= WithoutAge.score
                    /\ s.weight >= WithoutAge.weight

\* a registration expiring in 10 days, created under a year ago: the surface
\* keeps its 95 and 0.95 but is labelled high
C22_ExpiringYoungDomainIsHigh ==
    /\ pc = "done"
    /\ RegistrarKnown
    /\ ExpiryTier(30)
    /\ UnderAYearOld
    /\ \E i \in RegistrarSurfaces :
          /\ attackSurfaces[i].riskSeverity = "high"
          /\ attackSurfaces[i].riskScore = 95
          /\ attackSurfaces[i].weight = 95

-----------------------------------------------------------------------------
(* Properties of the nameserver-provider rule *)

ManagedProviders ==
    {"Cloudflare", "AWS Route 53", "Akamai", "Google Cloud DNS", "Azure DNS"}

\* the contribution the provider rule is to make for a classification
ProviderPoints(provider) ==
    IF provider \in ManagedProviders THEN 0 - 5
    ELSE IF provider = "ISP/Registrar Default" THEN 10
    ELSE 0

\* the points of the other DNS Security rules: the same section scored
\* without its ns_provider
OtherDnsPoints(dns) ==
    SumPoints(DnsRules([k \in (DOMAIN dns) \ {"ns_provider"} |-> dns[k]]))

\* C23: in a returned result with a dns section, DNS Security carries a
\* 'managed DNS' finding and the -5 contribution exactly when the provider is
\* one of the recognised managed providers, the default/ISP finding and +10
\* exactly for the default classification, and neither for 'Unknown'.
C23_UnknownProviderContributesNothing ==
    (pc = "done" /\ response.status = 200 /\ Has(result, "dns")) =>
        LET provider == result.dns.ns_provider IN
        /\ \A p \in ManagedProviders \cup {"Unknown", "ISP/Registrar Default"} :
              ("Using managed DNS: " \o p) \in DnsFindings
                  <=> (p = provider /\ provider \in ManagedProviders)
        /\ "Using default/ISP nameservers - less secure" \in DnsFindings
              <=> provider = "ISP/Registrar Default"
        /\ \A i \in 1..Len(riskScores) :
              riskScores[i].category = "DNS Security" =>
                  riskScores[i].score = ProviderPoints(provider) + OtherDnsPoints(result.dns)

\* the NS query failed, the A query answered: the provider is 'Unknown' and
\* is scored as a managed provider, 30 in place of 35
C23_UnknownScoredAsManaged ==
    /\ pc = "done"
    /\ "ns" \in failed
    /\ Has(result, "dns")
    /\ result.dns.nameservers = <<>>
    /\ result.dns.ns_provider = "Unknown"
    /\ "Using managed DNS: Unknown" \in DnsFindings
    /\ \E i \in 1..Len(riskScores) :
          riskScores[i].category = "DNS Security" /\ riskScores[i].score = 30

-----------------------------------------------------------------------------
(* Properties of the order of the lookups *)

\* a lookup has been issued
Started(l) == calls[l] > 0

\* its result has come back to POST.  resolveDNS awaits each of its queries
\* before the next statement, and POST awaits getHttpHeaders and
\* getIpWhoisInfo the same way; getWhoisInfo is back once POST has left it
Completed(l) == Started(l) /\ (l = "whois" => WhoisReturned)

InFlight == {l \in Lookups : Started(l) /\ ~Completed(l)}

\* the awaits leave one lookup outstanding at a time
AtMostOneInFlight == Cardinality(InFlight) <= 1

\* C24: the WHOIS query is started without waiting for the DNS queries or the
\* HTTP probe: in the step that issues it, at least two of the lookups of the
\* request are in flight and not all DNS queries have completed.
C24_WhoisStartsBesideOtherLookups ==
    [][calls'["whois"] > calls["whois"] =>
           /\ Cardinality(InFlight') >= 2
           /\ \E l \in DnsLookups \cup {"http"} : ~Completed(l)]_vars

\* the WHOIS query is in flight, connected, and every DNS query and the HTTP
\* probe completed before it was issued
C24_WhoisAloneInFlight ==
    /\ pc = "whois_wait"
    /\ whoisQuery.connected
    /\ InFlight = {"whois"}
    /\ \A l \in DnsLookups \cup {"http"} : Completed(l)

-----------------------------------------------------------------------------
(* Properties of the dns section *)

\* the handler answered with a result
Returned == pc = "done" /\ response.status = 200

\* C25: in every returned result dns is present iff at least one A record
\* was resolved, which is exactly when hosting is present, whatever the NS,
\* MX and TXT queries returned; and DNS Security never carries the finding
\* 'No A records found'.
C25_DnsSectionFollowsARecord ==
    Returned =>
        /\ Has(result, "dns") <=> Len(dnsData.a_records) > 0
        /\ Has(result, "dns") <=> Has(result, "hosting")
        /\ "No A records found - site may be offline/misconfigured" \notin DnsFindings
        /\ Has(result, "dns") =>
              /\ Len(result.dns.a_records) > 0
              /\ \E i \in 1..Len(riskScores) : riskScores[i].category = "DNS Security"

\* NS, MX and TXT answered and A did not: email without dns and hosting
C25_EmailWithoutDns ==
    /\ Returned
    /\ {"ns", "mx", "txt"} \cap failed = {}
    /\ Len(dnsData.nameservers) > 0
    /\ Len(dnsData.a_records) = 0
    /\ Has(result, "email")
    /\ ~Has(result, "dns")
    /\ ~Has(result, "hosting")
    /\ \A i \in 1..Len(riskScores) : riskScores[i].category # "DNS Security"

-----------------------------------------------------------------------------
(* Properties of the point sums *)

\* the largest point sum of a category
MaxPoints(category) ==
    CASE category = "Domain Registration" -> 83
      [] category = "DNS Security" -> 55
      [] category = "Email Security" -> 70
      [] category = "Hosting Infrastructure" -> 40
      [] category = "Web Server" -> 5

\* C26: for every InfrastructureData the point sum of each category is at
\* most 83, 55, 70, 40 and 5 in the order of the categories, so the score
\* equals the raw sum (which weight carries, as sum / 100) and the clamp at
\* 100 changes nothing; severity critical occurs only for Domain Registration
\* and severity low never.
C26_SumsStayBelowClamp ==
    \A i \in 1..Len(riskScores) : LET r == riskScores[i] IN
        /\ r.score <= MaxPoints(r.category)
        /\ r.category # "Web Server" => r.weight = r.score
        /\ r.category = "Web Server" => r.weight = Max(r.score, 10)
        /\ r.severity # "low"
        /\ r.severity = "critical" => r.category = "Domain Registration"

\* every registration rule fires: 83 points and critical
C26_RegistrationAtItsMaximum ==
    /\ pc = "done"
    /\ \E i \in 1..Len(riskScores) :
          /\ riskScores[i].category = "Domain Registration"
          /\ riskScores[i].score = 83
          /\ riskScores[i].severity = "critical"
    /\ \E i \in 1..Len(riskScores) :
          riskScores[i].category = "DNS Security" /\ riskScores[i].severity # "critical"

-----------------------------------------------------------------------------
(* Properties of the omitted surface *)

\* the data has what each of the six candidates needs
AllSixPresent ==
    LET reg     == Section(result, "domain_registration")
        ipWhois == Section(Section(result, "hosting"), "ip_whois")
        web     == Section(result, "web_server")
    IN  /\ TruthyText(reg, "registrar")
        /\ TruthyStr(Section(result, "email"), "mx_provider")
        /\ TruthyStr(Section(result, "dns"), "ns_provider")
        /\ TruthyText(reg, "registrant_name") \/ TruthyText(reg, "registrant_organization")
        /\ TruthyStr(ipWhois, "organization") \/ TruthyStr(ipWhois, "isp")
        /\ TruthyStr(web, "platform") \/ TruthyText(web, "server_header")

SixVectors ==
    {"Registrar", "Email Provider", "DNS Provider", "Registrant Contact", "Hosting Provider",
     "Web Server"}

ReturnedVectors == {attackSurfaces[i].vector : i \in 1..Len(attackSurfaces)}

SpfAndDmarcPresent ==
    /\ TruthyText(result.email, "spf_record")
    /\ TruthyText(result.email, "dmarc_record")

\* C27: when all six candidates are present, five surfaces are returned and
\* the omitted one is Email Provider when both an SPF and a DMARC record are
\* present, and Web Server otherwise.
C27_WebServerOrProtectedEmailOmitted ==
    (pc = "done" /\ AllSixPresent) =>
        /\ Len(attackSurfaces) = 5
        /\ Cardinality(ReturnedVectors) = 5
        /\ SixVectors \ ReturnedVectors =
              IF SpfAndDmarcPresent THEN {"Email Provider"} ELSE {"Web Server"}

\* six candidates with SPF and DMARC in place: Web Server is returned last,
\* with its 35, and Email Provider is left out
C27_EmailProviderOmitted ==
    /\ pc = "done"
    /\ AllSixPresent
    /\ SpfAndDmarcPresent
    /\ Len(attackSurfaces) = 5
    /\ attackSurfaces[5].vector = "Web Server"
    /\ attackSurfaces[5].riskScore = 35
    /\ "Email Provider" \notin ReturnedVectors

-----------------------------------------------------------------------------
(* Properties of a repeated normalization *)

\* C28: the normalization is idempotent: normalizing the stored domain of an
\* accepted request again returns it unchanged, for every input, among them
\* www.www.example.com and http://https://example.com.
C28_NormalizationIsIdempotent ==
    pc = "dns_ns" => NormalizeDomain(result.domain) = result.domain

\* www.www.example.com is stored as www.example.com, which normalizes to
\* example.com
C28_SecondWwwStrippedOnSecondPass ==
    /\ pc = "dns_ns"
    /\ body.text = T_www \o T_www \o T_example
    /\ result.domain = T_www \o T_example
    /\ NormalizeDomain(result.domain) = T_example

-----------------------------------------------------------------------------
(* Properties of the end of the WHOIS query *)

\* C29: every WHOIS query that was started eventually settles, whatever the
\* peer does: by the peer's end, by a connection error or by the timeout.
C29_QueryEventuallySettles ==
    whoisQuery.created ~> (whoisQuery.promise.state # "pending")

\* the peer has sent MaxChunks chunks and one more within the timeout: the
\* query is pending and the idle timer starts again
C29_StreamingPeerRestartsTimer ==
    /\ pc = "whois_wait"
    /\ whoisQuery.connected
    /\ whoisQuery.chunks = MaxChunks
    /\ whoisQuery.more
    /\ whoisQuery.idle = 0
    /\ ~whoisQuery.ended
    /\ ~whoisQuery.timedOut
    /\ whoisQuery.promise.state = "pending"

-----------------------------------------------------------------------------
(* Properties of the expiry tiers of the two passes *)

\* the findings of the Domain Registration entry
RegistrationFindings ==
    UNION {{riskScores[i].findings[j] : j \in 1..Len(riskScores[i].findings)} :
              i \in {k \in 1..Len(riskScores) : riskScores[k].category = "Domain Registration"}}

\* the +25 and the +15 contribution, by their findings
Plus25 == \E f \in RegistrationFindings : f.msg = "Domain expires in N days - HIGH URGENCY"
Plus15 == \E f \in RegistrationFindings : f.msg = "Domain expires in N days"

\* both passes have run on a record with a registrar and an expiration date
ExpiryScoredTwice ==
    /\ pc = "done"
    /\ RegistrarKnown
    /\ TruthyText(Registration, "expiration_date")

ExpiryDate == DateGetTime(Registration.expiration_date)

=============================================================================
